---- MODULE Spec2Model ----
(***************************************************************************)
(* Verification model of the SEAL client SDK: partial-key fetch            *)
(* orchestration (SealClient.fetchKeys), the key cache, the session key,   *)
(* the majority-error aggregation and the threshold encrypt/decrypt path.  *)
(***************************************************************************)
EXTENDS Integers, Sequences, FiniteSets, TLC

(***************************************************************************)
(* Bounds of the model.                                                    *)
(***************************************************************************)
NumServers == 2
MaxCalls == 2
GroupOrder == 7
MaxErrors == 4
KeyLen == 1
MaxVoters == 2
TimeBits == 3

(***************************************************************************)
(* Program constants.                                                      *)
(***************************************************************************)
MinTtlMin == 1
MaxTtlMin == 10

(***************************************************************************)
(* Input domains.                                                          *)
(***************************************************************************)
Servers == 1..NumServers
InnerIds == {<<1>>, <<2>>}
SuiObjectIds == {<<0>>, <<1>>}
PackageIds == {<<0>>, <<0, 0>>}
ErrorKinds == {"NoAccessError", "InternalError", "TimeoutError"}
RequestErrorKinds == {"NoAccessError", "TimeoutError"}
Undefined == [name |-> "undefined", server |-> 0]
NoKey == -1
NoSignature == "none"
Ok == [name |-> "ok", server |-> 0]
NoResult == [name |-> "none", server |-> 0]
SdkError(errorName) == [name |-> errorName, server |-> 0]

(***************************************************************************)
(* Bytes.                                                                  *)
(***************************************************************************)
Failure == <<-1>>

RECURSIVE BitXor(_, _)
BitXor(a, b) ==
    IF a = 0 THEN b
    ELSE IF b = 0 THEN a
    ELSE 2 * BitXor(a \div 2, b \div 2) + ((a + b) % 2)

xorUnchecked(a, b) == [i \in 1..Len(a) |-> BitXor(a[i], b[i])]

xor(a, b) == IF Len(a) # Len(b) THEN Failure ELSE xorUnchecked(a, b)

(* toBytes: a u64 in little-endian order *)
RECURSIVE LittleEndian(_, _)
LittleEndian(n, length) ==
    IF length = 0 THEN <<>> ELSE <<n % 256>> \o LittleEndian(n \div 256, length - 1)

ToBytes(n) == LittleEndian(n, 8)

IsValidSuiObjectId(packageId) == packageId \in SuiObjectIds

(* the domain separation tag 'SUI-SEAL-IBE-BLS12381-00', cut to its first bytes *)
DST == <<83, 85, 73>>

createFullId(dst, packageId, innerId) ==
    IF ~IsValidSuiObjectId(packageId) THEN Failure
    ELSE <<Len(dst)>> \o dst \o packageId \o innerId

(* the package the session key was created for *)
SessionPackageId == <<0>>
FullIds == {createFullId(DST, SessionPackageId, id) : id \in InnerIds}

(***************************************************************************)
(* Curve layer: group elements are represented by their discrete logs      *)
(* modulo GroupOrder, so that the pairing is multiplication of exponents.  *)
(***************************************************************************)
G1Elements == 0..(GroupOrder - 1)
G2Generator == 1

Pairing(g1, g2) == (g1 * g2) % GroupOrder

RECURSIVE SumBytes(_, _)
SumBytes(bytes, from) ==
    IF from > Len(bytes) THEN 0 ELSE bytes[from] + SumBytes(bytes, from + 1)

(* a point of G1 other than the identity *)
HashToCurve(data) == (SumBytes(data, 1) % (GroupOrder - 1)) + 1

(* key server descriptors as returned by retrieveKeyServers *)
MasterKey(s) == (s + 1) % GroupOrder
ObjectId(s) == s
Pk(s) == (G2Generator * MasterKey(s)) % GroupOrder
KeyType(s) == "BonehFranklinBLS12381"
ObjectIds == {ObjectId(s) : s \in Servers}

(* the user secret key a key server extracts for an identity *)
ExtractUserSecretKey(s, fullId) == (HashToCurve(fullId) * MasterKey(s)) % GroupOrder

VerifyUserSecretKey(userSecretKey, id, publicKey) ==
    Pairing(userSecretKey, G2Generator) = Pairing(HashToCurve(id), publicKey)

(***************************************************************************)
(* Hash layer.  sha3_256 is represented by a small deterministic digest of *)
(* KeyLen bytes; hmac and hkdf are built on it.                            *)
(***************************************************************************)
RECURSIVE Absorb(_, _, _)
Absorb(acc, bytes, from) ==
    IF from > Len(bytes) THEN acc
    ELSE Absorb((acc * 31 + bytes[from] + 1) % 65521, bytes, from + 1)

Digest(bytes) ==
    LET h == Absorb(7, bytes, 1)
    IN [j \in 1..KeyLen |-> ((h + j) * (2 * j + 1)) % 256]

Hmac(key, message) == Digest(<<Len(key)>> \o key \o message)

Hkdf(ikm, salt, info) == Digest(<<Len(ikm)>> \o ikm \o <<Len(salt)>> \o salt \o info)

(***************************************************************************)
(* kdf.ts                                                                  *)
(***************************************************************************)
PERMUTATION == <<0, 2, 4, 1, 3, 5>>

(* GTElement.toBytes: six coefficients *)
GTBytes(element) == [i \in 1..6 |-> (element * 6 + i) % 256]

kdf(element, info) ==
    LET bytes == GTBytes(element)
        permutedBytes == [k \in 1..6 |->
                                     bytes[CHOOSE i \in 1..6 : PERMUTATION[i] + 1 = k]]
    IN Hkdf(permutedBytes, <<>>, info)

EncryptedRandomness == <<0>>
DEM == <<1>>

deriveKey(purpose, baseKey) == Hmac(baseKey, purpose)

(***************************************************************************)
(* Shamir secret sharing over GF(256) (package shamir-secret-sharing).     *)
(***************************************************************************)
XTime(a) == IF a >= 128 THEN BitXor((2 * a) % 256, 27) ELSE 2 * a

RECURSIVE GfMul(_, _)
GfMul(a, b) ==
    IF b = 0 THEN 0
    ELSE LET rest == GfMul(XTime(a), b \div 2)
         IN IF b % 2 = 1 THEN BitXor(a, rest) ELSE rest

GfInverse == [a \in 1..255 |-> CHOOSE b \in 1..255 : GfMul(a, b) = 1]

GfDiv(a, b) == IF a = 0 THEN 0 ELSE GfMul(a, GfInverse[b])

(* value at x of the polynomial with the given coefficients, intercept first *)
RECURSIVE Evaluate(_, _)
Evaluate(coefficients, x) ==
    IF coefficients = <<>> THEN 0
    ELSE BitXor(Head(coefficients), GfMul(x, Evaluate(Tail(coefficients), x)))

(* externalSplit: one polynomial of degree threshold - 1 per secret byte, the
   x-coordinate of a share in its last byte *)
externalSplit(secret, n, coefficients, xCoordinates) ==
    [i \in 1..n |->
                [j \in 1..Len(secret) |->
                    Evaluate(<<secret[j]>> \o coefficients[j], xCoordinates[i])]
                \o <<xCoordinates[i]>>]

RECURSIVE Basis(_, _, _, _)
Basis(xSamples, i, j, x) ==
    IF j > Len(xSamples) THEN 1
    ELSE IF j = i THEN Basis(xSamples, i, j + 1, x)
    ELSE GfMul(GfDiv(BitXor(x, xSamples[j]), BitXor(xSamples[i], xSamples[j])),
               Basis(xSamples, i, j + 1, x))

RECURSIVE InterpolateFrom(_, _, _, _)
InterpolateFrom(xSamples, ySamples, i, x) ==
    IF i > Len(xSamples) THEN 0
    ELSE BitXor(GfMul(ySamples[i], Basis(xSamples, i, 1, x)),
                InterpolateFrom(xSamples, ySamples, i + 1, x))

interpolatePolynomial(xSamples, ySamples, x) == InterpolateFrom(xSamples, ySamples, 1, x)

(* externalCombine: at least two shares with distinct x-coordinates *)
externalCombine(shares) ==
    LET shareLength == Len(shares[1])
        xSamples == [i \in 1..Len(shares) |-> shares[i][shareLength]]
    IN IF \/ Len(shares) < 2
          \/ \E i, j \in 1..Len(shares) : i # j /\ xSamples[i] = xSamples[j]
       THEN Failure
       ELSE [b \in 1..(shareLength - 1) |->
                        interpolatePolynomial(
                            xSamples, [i \in 1..Len(shares) |-> shares[i][b]], 0)]

(***************************************************************************)
(* split (bcs.ts) and combine (decrypt.ts).                                *)
(***************************************************************************)
(* a split that tags every copy of the secret with the same index *)
splitUntagged(secret, n, threshold, coefficients, xCoordinates) ==
    IF n = 0 \/ threshold = 0 \/ threshold > n THEN Failure
    ELSE IF threshold = 1
    THEN [i \in 1..n |-> [share |-> secret, index |-> 0]]
    ELSE LET shares == externalSplit(secret, n, coefficients, xCoordinates)
         IN [i \in 1..n |->
                        [share |-> SubSeq(shares[i], 1, Len(shares[i]) - 1),
                         index |-> shares[i][Len(shares[i])]]]

split(secret, n, threshold, coefficients, xCoordinates) ==
    IF n = 0 \/ threshold = 0 \/ threshold > n THEN Failure
    ELSE IF threshold = 1
    THEN [i \in 1..n |-> [share |-> secret, index |-> i - 1]]
    ELSE LET shares == externalSplit(secret, n, coefficients, xCoordinates)
         IN [i \in 1..n |->
                        [share |-> SubSeq(shares[i], 1, Len(shares[i]) - 1),
                         index |-> shares[i][Len(shares[i])]]]

combine(shares) ==
    IF Len(shares) = 0 THEN Failure
    ELSE IF Len(shares) = 1 THEN shares[1].share
    ELSE externalCombine([i \in 1..Len(shares) |->
                                     shares[i].share \o <<shares[i].index>>])

(***************************************************************************)
(* Boneh-Franklin identity-based encryption of the shares.                 *)
(***************************************************************************)
(* Scalar.toBytes: big-endian *)
ScalarToBytes(r) == [k \in 1..KeyLen |-> IF k = KeyLen THEN r % 256 ELSE 0]

encapBatched(publicKeys, id, r) ==
    LET gid == (HashToCurve(id) * r) % GroupOrder
    IN [nonce |-> (G2Generator * r) % GroupOrder,
        keys |-> [i \in 1..Len(publicKeys) |-> Pairing(gid, publicKeys[i])]]

encryptBatched(publicKeys, id, msgAndInfos, randomnessKey, r) ==
    IF Len(publicKeys) = 0 \/ Len(publicKeys) # Len(msgAndInfos) THEN Failure
    ELSE LET encap == encapBatched(publicKeys, id, r)
         IN [kind |-> "BonehFranklinBLS12381",
             nonce |-> encap.nonce,
             encryptedShares |->
                 [i \in 1..Len(msgAndInfos) |->
                             xor(msgAndInfos[i].msg,
                                 kdf(encap.keys[i], msgAndInfos[i].info))],
             encryptedRandomness |-> xor(randomnessKey, ScalarToBytes(r))]

decap(nonce, usk) == Pairing(usk, nonce)

BonehFranklinDecryptNoInfo(nonce, sk, ciphertext, info) ==
    xor(ciphertext, kdf(decap(nonce, sk), <<>>))

BonehFranklinDecrypt(nonce, sk, ciphertext, info) ==
    xor(ciphertext, kdf(decap(nonce, sk), info))

(***************************************************************************)
(* Data encapsulation.                                                     *)
(***************************************************************************)
iv == <<138, 55, 153, 253, 198, 46, 121, 219, 160, 128, 89, 7, 214, 156, 148, 220>>

(* crypto.subtle AES-GCM: a key stream and an authentication tag over the
   additional data and the ciphertext *)
SubtleKeyStream(key, nonce, n) ==
    [p \in 1..n |-> Digest(<<1>> \o key \o nonce \o ToBytes(p))[1]]

SubtleTag(key, nonce, additionalData, ciphertext) ==
    Digest(<<2>> \o key \o nonce \o ToBytes(Len(additionalData)) \o additionalData
           \o ciphertext)

SubtleEncrypt(key, nonce, additionalData, plaintext) ==
    LET ciphertext == xorUnchecked(plaintext, SubtleKeyStream(key, nonce, Len(plaintext)))
    IN ciphertext \o SubtleTag(key, nonce, additionalData, ciphertext)

SubtleDecrypt(key, nonce, additionalData, blob) ==
    IF Len(blob) < KeyLen THEN Failure
    ELSE LET ciphertext == SubSeq(blob, 1, Len(blob) - KeyLen)
             tag == SubSeq(blob, Len(blob) - KeyLen + 1, Len(blob))
         IN IF tag # SubtleTag(key, nonce, additionalData, ciphertext) THEN Failure
            ELSE xorUnchecked(ciphertext, SubtleKeyStream(key, nonce, Len(ciphertext)))

AesGcm256Encrypt(key, plaintext, aad) ==
    [kind |-> "Aes256Gcm", blob |-> SubtleEncrypt(key, iv, aad, plaintext),
     mac |-> <<>>, aad |-> aad]

AesGcm256Decrypt(key, ciphertext) ==
    IF ciphertext.kind # "Aes256Gcm" THEN Failure
    ELSE SubtleDecrypt(key, iv, ciphertext.aad, ciphertext.blob)

PlainEncrypt(key) == [kind |-> "Plain", blob |-> <<>>, mac |-> <<>>, aad |-> <<>>]

EncryptionKeyTag == <<1>>
MacKeyTag == <<2>>

computeMac(key, aad, ciphertext) ==
    LET macKey == Hmac(key, MacKeyTag)
        macInput == ToBytes(Len(aad)) \o aad \o ciphertext
    IN Hmac(macKey, macInput)

(* blocks of the digest length, block i masked with hmac(encryptionKey, i) *)
encryptInCtrMode(key, msg) ==
    LET blockSize == KeyLen
        encryptionKey == Hmac(key, EncryptionKeyTag)
    IN [p \in 1..Len(msg) |->
                   BitXor(msg[p],
                          Hmac(encryptionKey, ToBytes((p - 1) \div blockSize))
                              [((p - 1) % blockSize) + 1])]

Hmac256CtrEncrypt(key, plaintext, aad) ==
    LET blob == encryptInCtrMode(key, plaintext)
    IN [kind |-> "Hmac256Ctr", blob |-> blob, mac |-> computeMac(key, aad, blob),
        aad |-> aad]

Hmac256CtrDecrypt(key, ciphertext) ==
    IF ciphertext.kind # "Hmac256Ctr" THEN Failure
    ELSE IF computeMac(key, ciphertext.aad, ciphertext.blob) # ciphertext.mac THEN Failure
    ELSE encryptInCtrMode(key, ciphertext.blob)

(* EncryptionInput.encrypt *)
EncryptInput(encryptionInput, key) ==
    IF encryptionInput.kind = "Aes256Gcm"
    THEN AesGcm256Encrypt(key, encryptionInput.plaintext, encryptionInput.aad)
    ELSE IF encryptionInput.kind = "Hmac256Ctr"
    THEN Hmac256CtrEncrypt(key, encryptionInput.plaintext, encryptionInput.aad)
    ELSE PlainEncrypt(key)

(***************************************************************************)
(* encrypt (bcs.ts) and decrypt (decrypt.ts).                              *)
(***************************************************************************)
MAX_U8 == 255

NoInput == [kind |-> "none", plaintext |-> <<>>, aad |-> <<>>]
NoArgs == [keyServers |-> <<>>, threshold |-> 0, packageId |-> <<>>]
NoDecryption == [data |-> <<>>, stage |-> "none", status |-> "none"]
NoObject ==
    [version |-> 0, packageId |-> <<>>, id |-> <<>>, services |-> <<>>, threshold |-> 0,
     encryptedShares |-> [kind |-> "none", nonce |-> 0, encryptedShares |-> <<>>,
                          encryptedRandomness |-> <<>>],
     ciphertext |-> [kind |-> "none", blob |-> <<>>, mac |-> <<>>, aad |-> <<>>]]
NotEncrypted == [status |-> "none", encryptedObject |-> NoObject, key |-> <<>>]
NotDecrypted == [status |-> "none", value |-> <<>>, message |-> ""]
NoKeys == [k \in FullIds \X ObjectIds |-> NoKey]
NotShared == [secret |-> <<>>, n |-> 0, threshold |-> 0, shares |-> <<>>]
(* the message of the Error thrown when the key store has too few keys; the
   source words it in Chinese *)
NotEnoughSharesMessage == "not enough key shares, fetch more keys"
Thrown(errorName, message) == [status |-> errorName, value |-> <<>>, message |-> message]
Returned(value) == [status |-> "ok", value |-> value, message |-> ""]

(* an encrypt that takes any package id *)
encryptAnyPackage(keyServers, threshold, packageId, id, input, key, r, coefficients, xCoordinates) ==
    IF \/ Len(keyServers) < threshold
       \/ threshold = 0
       \/ Len(keyServers) > MAX_U8
       \/ threshold > MAX_U8
    THEN [status |-> "UserError", encryptedObject |-> NoObject, key |-> <<>>]
    ELSE [status |-> "ok",
          encryptedObject |-> [NoObject EXCEPT !.packageId = packageId, !.id = id,
                                               !.threshold = threshold],
          key |-> deriveKey(DEM, key)]

(* key is the output of generateKey, r of Scalar.random, coefficients and
   xCoordinates the random choices of externalSplit *)
encrypt(keyServers, threshold, packageId, id, input, key, r, coefficients, xCoordinates) ==
    IF \/ Len(keyServers) < threshold
       \/ threshold = 0
       \/ Len(keyServers) > MAX_U8
       \/ threshold > MAX_U8
       \/ ~IsValidSuiObjectId(packageId)
    THEN [status |-> "UserError", encryptedObject |-> NoObject, key |-> <<>>]
    ELSE LET demKey == deriveKey(DEM, key)
             ciphertext == EncryptInput(input, demKey)
             shares == split(key, Len(keyServers), threshold, coefficients, xCoordinates)
             fullId == createFullId(DST, packageId, id)
             encryptedShares ==
                 encryptBatched([i \in 1..Len(keyServers) |-> Pk(keyServers[i])],
                                fullId,
                                [i \in 1..Len(shares) |->
                                            [msg |-> shares[i].share,
                                             info |-> <<shares[i].index>>]],
                                deriveKey(EncryptedRandomness, key), r)
             services == [i \in 1..Len(keyServers) |->
                                     <<ObjectId(keyServers[i]), shares[i].index>>]
         IN [status |-> "ok",
             encryptedObject |->
                 [version |-> 0, packageId |-> packageId, id |-> id, services |-> services,
                  threshold |-> threshold, encryptedShares |-> encryptedShares,
                  ciphertext |-> ciphertext],
             key |-> demKey]

NotEnoughSharesUnlessEmpty(inKeystoreLength, threshold) == inKeystoreLength < 1

(* if (inKeystore.length < encryptedObject.threshold) *)
NotEnoughShares(inKeystoreLength, threshold) == inKeystoreLength < threshold

decrypt(encryptedObject, keyStore) ==
    IF encryptedObject.encryptedShares.kind # "BonehFranklinBLS12381"
    THEN Thrown("UnsupportedFeatureError", "unsupported encryption mode")
    ELSE
    LET fullId == createFullId(DST, encryptedObject.packageId, encryptedObject.id)
        services == encryptedObject.services
        InStore(i) == keyStore[<<fullId, services[i][1]>>] # NoKey
        inKeystore == SelectSeq([i \in 1..Len(services) |-> i], InStore)
        encryptedShares == encryptedObject.encryptedShares.encryptedShares
        nonce == encryptedObject.encryptedShares.nonce
    IN
    IF NotEnoughShares(Len(inKeystore), encryptedObject.threshold)
    THEN Thrown("Error", NotEnoughSharesMessage)
    ELSE IF Len(encryptedShares) # Len(services)
    THEN Thrown("InvalidCiphertextError", "share count mismatch")
    ELSE
    LET shares == [k \in 1..Len(inKeystore) |->
                      [index |-> services[inKeystore[k]][2],
                       share |-> BonehFranklinDecrypt(
                                    nonce,
                                    keyStore[<<fullId, services[inKeystore[k]][1]>>],
                                    encryptedShares[inKeystore[k]],
                                    <<services[inKeystore[k]][2]>>)]]
        key == combine(shares)
    IN
    IF key = Failure THEN Thrown("Error", "combine")
    ELSE
    LET demKey == deriveKey(DEM, key)
        ciphertext == encryptedObject.ciphertext
    IN
    IF ciphertext.kind = "Aes256Gcm"
    THEN LET plaintext == AesGcm256Decrypt(demKey, ciphertext)
         IN IF plaintext = Failure THEN Thrown("OperationError", "")
            ELSE Returned(plaintext)
    ELSE IF ciphertext.kind = "Plain"
    THEN Returned(demKey)
    ELSE IF ciphertext.kind = "Hmac256Ctr"
    THEN LET plaintext == Hmac256CtrDecrypt(demKey, ciphertext)
         IN IF plaintext = Failure THEN Thrown("InvalidCiphertextError", "invalid MAC")
            ELSE Returned(plaintext)
    ELSE Thrown("Error", "invalid encrypted object")

(***************************************************************************)
(* The wire form of an envelope: EncryptedObject of bcs.ts.  The fields    *)
(* follow each other in the order of the struct; a vector is its length    *)
(* and then its elements, an enum the index of its variant and then the    *)
(* variant's fields, an option 0 or 1 and then the value.  An address, a   *)
(* fixed-size byte array and a curve point are one item each.              *)
(***************************************************************************)
serializeCiphertext(c) ==
    IF c.kind = "Aes256Gcm"
    THEN <<0, Len(c.blob)>> \o c.blob \o <<1, Len(c.aad)>> \o c.aad
    ELSE IF c.kind = "Hmac256Ctr"
    THEN <<1, Len(c.blob)>> \o c.blob \o <<1, Len(c.aad)>> \o c.aad \o <<c.mac>>
    ELSE <<2>>

(* EncryptedObject.serialize(...).toBytes() *)
serialize(o) ==
    <<o.version, o.packageId, Len(o.id)>> \o o.id
        \o <<Len(o.services)>>
        \o [k \in 1..(2 * Len(o.services)) |-> o.services[(k + 1) \div 2][2 - (k % 2)]]
        \o <<o.threshold>>
        \o <<0, o.encryptedShares.nonce, Len(o.encryptedShares.encryptedShares)>>
        \o o.encryptedShares.encryptedShares
        \o <<o.encryptedShares.encryptedRandomness>>
        \o serializeCiphertext(o.ciphertext)

ParseError == [status |-> "Error", value |-> <<>>]

(* the Ciphertext enum read from position p of data *)
parseCiphertext(data, p) ==
    IF p > Len(data) \/ data[p] \notin {0, 1, 2} THEN ParseError
    ELSE IF data[p] = 2
    THEN IF p # Len(data) THEN ParseError
         ELSE [status |-> "ok",
               value |-> <<[kind |-> "Plain", blob |-> <<>>, mac |-> <<>>, aad |-> <<>>]>>]
    ELSE IF p + 1 > Len(data) \/ p + 1 + data[p + 1] + 1 > Len(data) THEN ParseError
    ELSE LET blobEnd == p + 1 + data[p + 1]
             blob == SubSeq(data, p + 2, blobEnd)
             some == data[blobEnd + 1]
         IN IF some \notin {0, 1} \/ (some = 1 /\ blobEnd + 2 > Len(data)) THEN ParseError
            ELSE LET aadEnd == IF some = 0 THEN blobEnd + 1
                               ELSE blobEnd + 2 + data[blobEnd + 2]
                     aad == IF some = 0 THEN <<>> ELSE SubSeq(data, blobEnd + 3, aadEnd)
                 IN IF data[p] = 0
                    THEN IF aadEnd # Len(data) THEN ParseError
                         ELSE [status |-> "ok",
                               value |-> <<[kind |-> "Aes256Gcm", blob |-> blob,
                                            mac |-> <<>>, aad |-> aad]>>]
                    ELSE IF aadEnd + 1 # Len(data) THEN ParseError
                         ELSE [status |-> "ok",
                               value |-> <<[kind |-> "Hmac256Ctr", blob |-> blob,
                                            mac |-> data[aadEnd + 1], aad |-> aad]>>]

(* a parse that holds the envelope to the lengths and threshold of an envelope
   encrypt can produce *)
parseChecked(data) ==
    IF Len(data) < 4 \/ 3 + data[3] + 1 > Len(data) THEN ParseError
    ELSE
    LET idEnd == 3 + data[3]
        n == data[idEnd + 1]
        servicesEnd == idEnd + 1 + 2 * n
    IN
    IF servicesEnd + 4 > Len(data) \/ data[servicesEnd + 2] # 0 THEN ParseError
    ELSE
    LET threshold == data[servicesEnd + 1]
        m == data[servicesEnd + 4]
        sharesEnd == servicesEnd + 4 + m
    IN
    IF sharesEnd + 1 > Len(data) THEN ParseError
    ELSE IF m # n \/ threshold = 0 \/ threshold > n
    THEN [status |-> "InvalidCiphertextError", value |-> <<>>]
    ELSE
    LET ciphertext == parseCiphertext(data, sharesEnd + 2)
    IN
    IF ciphertext.status # "ok" THEN ParseError
    ELSE [status |-> "ok",
          value |-> <<[version |-> data[1], packageId |-> data[2],
                       id |-> SubSeq(data, 4, idEnd),
                       services |-> [i \in 1..n |-> <<data[idEnd + 2 * i],
                                                      data[idEnd + 2 * i + 1]>>],
                       threshold |-> threshold,
                       encryptedShares |->
                           [kind |-> "BonehFranklinBLS12381", nonce |-> data[servicesEnd + 3],
                            encryptedShares |-> SubSeq(data, servicesEnd + 5, sharesEnd),
                            encryptedRandomness |-> data[sharesEnd + 1]],
                       ciphertext |-> ciphertext.value[1]]>>]

(* EncryptedObject.parse(data): it reads the fields one after the other and
   fails on data that ends early, on an unknown variant and on data left over *)
parse(data) ==
    IF Len(data) < 4 \/ 3 + data[3] + 1 > Len(data) THEN ParseError
    ELSE
    LET idEnd == 3 + data[3]
        n == data[idEnd + 1]
        servicesEnd == idEnd + 1 + 2 * n
    IN
    IF servicesEnd + 4 > Len(data) \/ data[servicesEnd + 2] # 0 THEN ParseError
    ELSE
    LET threshold == data[servicesEnd + 1]
        m == data[servicesEnd + 4]
        sharesEnd == servicesEnd + 4 + m
    IN
    IF sharesEnd + 1 > Len(data) THEN ParseError
    ELSE
    LET ciphertext == parseCiphertext(data, sharesEnd + 2)
    IN
    IF ciphertext.status # "ok" THEN ParseError
    ELSE [status |-> "ok",
          value |-> <<[version |-> data[1], packageId |-> data[2],
                       id |-> SubSeq(data, 4, idEnd),
                       services |-> [i \in 1..n |-> <<data[idEnd + 2 * i],
                                                      data[idEnd + 2 * i + 1]>>],
                       threshold |-> threshold,
                       encryptedShares |->
                           [kind |-> "BonehFranklinBLS12381", nonce |-> data[servicesEnd + 3],
                            encryptedShares |-> SubSeq(data, servicesEnd + 5, sharesEnd),
                            encryptedRandomness |-> data[sharesEnd + 1]],
                       ciphertext |-> ciphertext.value[1]]>>]

(***************************************************************************)
(* SealAPIError (error.ts): the error thrown for a key server's response.  *)
(***************************************************************************)
NoStatus == -1
NoThrow == [name |-> "none", message |-> "", requestId |-> "", status |-> NoStatus]
NotAsserted ==
    [response |-> [ok |-> TRUE, status |-> 200, json |-> FALSE, error |-> ""],
     requestId |-> "", thrown |-> NoThrow]

(* the error classes whose constructor takes the request id only *)
TypedError(name, requestId) ==
    [name |-> name, message |-> name, requestId |-> requestId, status |-> NoStatus]

(* SealAPIError.#generate *)
generate(message, requestId, status) ==
    IF message = "InvalidPTB" THEN TypedError("InvalidPTBError", requestId)
    ELSE IF message = "InvalidPackage" THEN TypedError("InvalidPackageError", requestId)
    ELSE IF message = "NoAccess" THEN TypedError("NoAccessError", requestId)
    ELSE IF message = "InvalidCertificate" THEN TypedError("ExpiredSessionKeyError", requestId)
    ELSE IF message = "OldPackageVersion" THEN TypedError("OldPackageError", requestId)
    ELSE IF message = "InvalidSignature" THEN TypedError("InvalidUserSignatureError", requestId)
    ELSE IF message = "InvalidSessionSignature"
    THEN TypedError("InvalidSessionKeySignatureError", requestId)
    ELSE IF message = "Failure" THEN TypedError("InternalError", requestId)
    ELSE [name |-> "GeneralError", message |-> message, requestId |-> requestId,
          status |-> status]

(* SealAPIError.assertResponse; a body that is JSON has the value of its error
   field in error ("undefined" without the field), statusText stands for
   response.statusText *)
assertResponse(response, requestId) ==
    IF response.ok THEN NoThrow
    ELSE IF response.json THEN generate(response.error, requestId, NoStatus)
    ELSE [name |-> "GeneralError", message |-> "statusText", requestId |-> requestId,
          status |-> response.status]

(***************************************************************************)
(* State.                                                                  *)
(***************************************************************************)
VARIABLES
    cachedKeys,             \* SealClient.#cachedKeys: <<fullId, objectId>> -> G1 element or NoKey
    keyServersLoaded,       \* SealClient.#keyServers resolved
    pc,                     \* "idle" or "fetching" (between dispatch and Promise.allSettled)
    callNo,                 \* number of fetchKeys calls started
    stage,                  \* how far the last fetchKeys call got
    result,                 \* outcome of the last fetchKeys call: Ok or the error thrown
    fullIds,                \* requested fullIds of the call
    threshold,              \* threshold of the call
    completedServerCount,
    remainingKeyServers,
    task,                   \* per server: state of its keyFetches promise
    warned,                 \* console.warn was called for a key that failed verification
    receivedIds,            \* per server: fullIds whose key passed verification
    errors,                 \* the errors buffer
    aborted,                \* controller.signal.aborted
    requestsSent,           \* number of fetch_key requests the last call sent
    signerCalls,            \* number of Signer.signPersonalMessage invocations of the last call
    response,               \* <<server, allKeys>> if the step just taken called console.warn
    personalMessageSignature,
    hasSigner,
    creationTimeMs,
    ttlMin,
    now,                    \* Date.now()
    requestParams,          \* outcome of the last createRequestParams call
    requestTime,            \* Date.now() at the last createRequestParams call
    signatureCheck,         \* the setPersonalMessageSignature call of the step just taken
    signerMessage,          \* <<message>> last handed to Signer.signPersonalMessage
    certificate,            \* what the last getCertificate call to finish returned or threw
    issued,                 \* signatures of the certificates returned to getCertificate calls
                            \* made after setPersonalMessageSignature first succeeded
    signing,                \* getCertificate calls awaiting Signer.signPersonalMessage
    errList,                \* argument of toMajorityError
    asserted,               \* the last SealAPIError.assertResponse call and what it threw
    majority,               \* value returned by toMajorityError
    encryptionInput,        \* the EncryptionInput given to encrypt
    encryptArgs,            \* keyServers, threshold and packageId given to encrypt
    decryption,             \* the last SealClient.decrypt call: its data and how far it got
    encrypted,              \* what encrypt returned or threw
    keys,                   \* the key store given to decrypt
    decrypted,              \* what decrypt returned or threw
    serverObjectIds,        \* SealClient.#serverObjectIds
    verifyKeyServers,       \* SealClient.#verifyKeyServers
    invalidPops,            \* object ids of the key servers whose proof of possession is wrong
    keyServersPromise,      \* SealClient.#keyServers: "null", or a promise "pending" or "fulfilled"
    loading,                \* where #loadKeyServers is: "none", "retrieve" or "verify"
    unverified,             \* indexes of the servers whose verifyKeyServer has not settled
    inFlight,               \* #loadKeyServers executions that have not settled
    retrievals,             \* number of retrieveKeyServers calls made
    callers,                \* per call of encrypt, fetchKeys or decrypt: kind, threshold, status
    services,               \* services of the envelope given to decrypt in the step just taken
    vote,                   \* the Vote object of voting.move
    called,                 \* the last call of a Move function and how it ended
    subscription,           \* subscription.move: the ttl of the services and the Subscription
    clock,                  \* sui::clock::Clock.timestamp_ms
    arrived,                \* per server: the {fullId, key} entries of its 2xx response, in the order sent
    processed,              \* <<server, position>> of the entries the loop over allKeys has gone through
    shared                  \* the last call of split: secret, n, threshold and what it returned

fetchVars == <<cachedKeys, keyServersLoaded, pc, callNo, stage, result, fullIds, threshold,
               completedServerCount, remainingKeyServers, task, warned, receivedIds,
               errors, aborted, requestsSent, signerCalls, response>>
sessionVars == <<personalMessageSignature, hasSigner, creationTimeMs, ttlMin>>
paramsVars == <<requestParams, requestTime, certificate, issued, signing, signatureCheck,
                signerMessage>>
majorityVars == <<errList, majority, asserted>>
cryptoVars == <<encryptionInput, encryptArgs, encrypted, keys, decrypted, decryption,
                shared>>
clientVars == <<serverObjectIds, verifyKeyServers, invalidPops, keyServersPromise, loading, unverified, inFlight,
                retrievals, callers, services>>
moveVars == <<vote, called, subscription, clock>>
orderVars == <<arrived, processed>>
vars == <<fetchVars, sessionVars, now, paramsVars, majorityVars, cryptoVars, clientVars,
          moveVars, orderVars>>

(***************************************************************************)
(* SessionKey.                                                             *)
(***************************************************************************)
UserSignatures == {"sigA", "sigB"}
NotAuthorizedByUser == {NoSignature}
NoSignatureCheck == [status |-> "none", signature |-> NoSignature, verifies |-> FALSE]

CertificateStamped(signature) ==
    [user |-> "address", session_vk |-> "sessionKey", creation_time |-> now,
     ttl_min |-> ttlMin, signature |-> signature]

(* the Certificate of getCertificate; user and session_vk are fixed at
   construction *)
Certificate(signature) ==
    [user |-> "address", session_vk |-> "sessionKey", creation_time |-> creationTimeMs,
     ttl_min |-> ttlMin, signature |-> signature]

(* an isExpired that takes the time to live for seconds *)
IsExpiredInSeconds(creation, ttl, time) == creation + ttl * 60 * 1000 * 1000 - 10000 < time

IsExpiredOffByOne(creation, ttl, time) == creation + ttl * 60 * 1000 - 10000 <= time

IsExpired(creation, ttl, time) == creation + ttl * 60 * 1000 - 10000 < time

(* time passes *)
AdvanceClock(t) ==
    /\ t > now
    /\ now' = t

(***************************************************************************)
(* toMajorityError: the scan of error.ts over the list of errors.  The     *)
(* accumulator is maxCount, majorityError, counts.                         *)
(***************************************************************************)
RECURSIVE MajorityScan(_, _, _, _)
MajorityScan(errs, maxCount, majorityError, counts) ==
    IF errs = <<>> THEN majorityError
    ELSE LET errorName == Head(errs).name
             newCount == counts[errorName] + 1
             counts2 == [counts EXCEPT ![errorName] = newCount]
         IN IF newCount > maxCount
            THEN MajorityScan(Tail(errs), newCount, Head(errs), counts2)
            ELSE MajorityScan(Tail(errs), maxCount, majorityError, counts2)

RECURSIVE MajorityScanLatest(_, _, _, _)
MajorityScanLatest(errs, maxCount, majorityError, counts) ==
    IF errs = <<>> THEN majorityError
    ELSE LET errorName == Head(errs).name
             newCount == counts[errorName] + 1
             counts2 == [counts EXCEPT ![errorName] = newCount]
         IN IF newCount >= maxCount
            THEN MajorityScanLatest(Tail(errs), newCount, Head(errs), counts2)
            ELSE MajorityScanLatest(Tail(errs), maxCount, majorityError, counts2)

toMajorityErrorLatest(errs) ==
    MajorityScanLatest(errs, 0, IF errs = <<>> THEN Undefined ELSE errs[1],
                       [k \in ErrorKinds |-> 0])

toMajorityError(errs) ==
    MajorityScan(errs, 0, IF errs = <<>> THEN Undefined ELSE errs[1],
                 [k \in ErrorKinds |-> 0])

(***************************************************************************)
(* fetchKeys.                                                              *)
(***************************************************************************)
Handled == {"handledResolved", "handledRejected", "handledAborted"}

HasAllCached(cache, ids, s) == \A f \in ids : cache[<<f, ObjectId(s)>>] # NoKey

CachedServers(cache, ids) == {s \in Servers : HasAllCached(cache, ids, s)}

EnoughFromCacheStrict(completed, t) == completed > t

(* if (completedServerCount >= threshold) return; *)
EnoughFromCache(completed, t) == completed >= t

HasAllKeysSuperset(received, expected) == \A id \in expected : id \in received

HasAllKeysNoSizeTest(received, expected) == \A id \in received : id \in expected

(* receivedIds.size === expectedIds.size && every received id is expected *)
HasAllKeys(received, expected) ==
    /\ Cardinality(received) = Cardinality(expected)
    /\ \A id \in received : id \in expected

ThresholdReachedStrict(completed, t) == completed > t

(* if (completedServerCount >= threshold) controller.abort(); *)
ThresholdReached(completed, t) == completed >= t

BudgetExhaustedOffByOne(remainingSize, errorCount, t, completed) ==
    remainingSize - errorCount <= t - completed

(* remainingKeyServers.size - errors.length < threshold - completedServerCount *)
BudgetExhausted(remainingSize, errorCount, t, completed) ==
    remainingSize - errorCount < t - completed

(* controller.abort(): every request still in flight rejects *)
AbortOutstanding(t) == [s \in Servers |-> IF t[s] = "pending" THEN "aborted" ELSE t[s]]

(* a response with a key that fails verification is dropped as a whole *)
VerifiedIdsAllOrNothing(s, r) ==
    IF \E f \in FullIds : r[f] # NoKey /\ ~VerifyUserSecretKey(r[f], f, Pk(s))
    THEN {}
    ELSE {f \in FullIds : r[f] # NoKey}

VerifiedIdsUnchecked(s, r) == {f \in FullIds : r[f] # NoKey}

(* the keys of a response that pass verifyUserSecretKey *)
VerifiedIds(s, r) ==
    {f \in FullIds : r[f] # NoKey /\ VerifyUserSecretKey(r[f], f, Pk(s))}

NoTasks ==
    /\ task' = [s \in Servers |-> "none"]
    /\ warned' = FALSE
    /\ receivedIds' = [s \in Servers |-> {}]
    /\ errors' = <<>>
    /\ aborted' = FALSE

(* fetchKeys up to the dispatch of the per-server requests *)
FetchKeys(ids, t, loadError) ==
    /\ pc = "idle"
    /\ callNo < MaxCalls
    /\ callNo' = callNo + 1
    /\ fullIds' = {createFullId(DST, SessionPackageId, id) : id \in ids}
    /\ threshold' = t
    /\ response' = <<>>
    /\ UNCHANGED <<cachedKeys, hasSigner, creationTimeMs, ttlMin, now, paramsVars, cryptoVars,
                   majorityVars, clientVars,
                   moveVars, orderVars>>
    /\ IF ~keyServersLoaded /\ loadError # "none"
       THEN \* getKeyServers rejects
            /\ stage' = "keyServers"
            /\ result' = SdkError(loadError)
            /\ completedServerCount' = 0
            /\ remainingKeyServers' = {}
            /\ NoTasks
            /\ requestsSent' = 0
            /\ signerCalls' = 0
            /\ UNCHANGED <<keyServersLoaded, pc, personalMessageSignature>>
       ELSE
       /\ keyServersLoaded' = TRUE
       /\ IF t > NumServers \/ t < 1 \/ NumServers < 1
          THEN /\ stage' = "threshold"
               /\ result' = SdkError("InvalidThresholdError")
               /\ completedServerCount' = 0
               /\ remainingKeyServers' = {}
               /\ NoTasks
               /\ requestsSent' = 0
               /\ signerCalls' = 0
               /\ UNCHANGED <<pc, personalMessageSignature>>
          ELSE
          LET requested == {createFullId(DST, SessionPackageId, id) : id \in ids}
              completed == Cardinality(CachedServers(cachedKeys, requested))
              remaining == Servers \ CachedServers(cachedKeys, requested)
          IN
          /\ completedServerCount' = completed
          /\ remainingKeyServers' = remaining
          /\ IF EnoughFromCache(completed, t)
             THEN /\ stage' = "cache"
                  /\ result' = Ok
                  /\ NoTasks
                  /\ requestsSent' = 0
                  /\ signerCalls' = 0
                  /\ UNCHANGED <<pc, personalMessageSignature>>
             ELSE IF \E s \in remaining : KeyType(s) # "BonehFranklinBLS12381"
             THEN /\ stage' = "keyType"
                  /\ result' = SdkError("InvalidKeyServerError")
                  /\ NoTasks
                  /\ requestsSent' = 0
                  /\ signerCalls' = 0
                  /\ UNCHANGED <<pc, personalMessageSignature>>
             ELSE IF personalMessageSignature = NoSignature /\ ~hasSigner
             THEN \* getCertificate throws
                  /\ stage' = "certificate"
                  /\ result' = SdkError("InvalidPersonalMessageSignatureError")
                  /\ NoTasks
                  /\ requestsSent' = 0
                  /\ signerCalls' = 0
                  /\ UNCHANGED <<pc, personalMessageSignature>>
             ELSE
             /\ personalMessageSignature' =
                   IF personalMessageSignature = NoSignature THEN "signer"
                   ELSE personalMessageSignature
             /\ signerCalls' =
                   IF personalMessageSignature = NoSignature THEN 1 ELSE 0
             /\ IF IsExpired(creationTimeMs, ttlMin, now)
                THEN \* createRequestParams throws
                     /\ stage' = "requestParams"
                     /\ result' = SdkError("ExpiredSessionKeyError")
                     /\ NoTasks
                     /\ requestsSent' = 0
                     /\ UNCHANGED pc
                ELSE /\ stage' = "dispatched"
                     /\ result' = NoResult
                     /\ pc' = "fetching"
                     /\ task' = [s \in Servers |->
                                    IF s \in remaining THEN "pending" ELSE "none"]
                     /\ warned' = FALSE
                     /\ receivedIds' = [s \in Servers |-> {}]
                     /\ errors' = <<>>
                     /\ aborted' = FALSE
                     /\ requestsSent' = Cardinality(remaining)

StartFetchKeys ==
    /\ pc = "idle"
    /\ callNo < MaxCalls
    /\ \E ids \in SUBSET InnerIds, t \in 0..(NumServers + 1),
          loadError \in IF keyServersLoaded THEN {"none"}
                        ELSE {"none", "InvalidKeyServerError", "InvalidGetObjectError",
                              "TimeoutError"} :
          FetchKeys(ids, t, loadError)

(* the keys a 2xx response of server s may carry for one fullId *)
KeyChoices(s, f) ==
    {NoKey, ExtractUserSecretKey(s, f), (ExtractUserSecretKey(s, f) + 1) % GroupOrder}

Responses(s) ==
    {r \in [FullIds -> UNION {KeyChoices(s, f) : f \in FullIds}] :
        \A f \in FullIds : r[f] \in KeyChoices(s, f)}

(* fetchKeysForAllIds resolves: a 2xx response has arrived *)
RequestResolves(s) ==
    /\ pc = "fetching"
    /\ task[s] = "pending"
    /\ task' = [task EXCEPT ![s] = "resolved"]
    /\ response' = <<>>
    /\ UNCHANGED <<cachedKeys, keyServersLoaded, pc, callNo, stage, result, fullIds, threshold,
                   completedServerCount, remainingKeyServers, warned, receivedIds,
                   errors, aborted, requestsSent, signerCalls, sessionVars, now,
                   paramsVars, cryptoVars, majorityVars, clientVars,
                   moveVars, orderVars>>

(* a request that fails is sent again *)
RequestRejectsAndRetries(s) ==
    /\ pc = "fetching"
    /\ task[s] = "pending"
    /\ requestsSent <= NumServers
    /\ requestsSent' = requestsSent + 1
    /\ response' = <<>>
    /\ UNCHANGED <<cachedKeys, keyServersLoaded, pc, callNo, stage, result, fullIds, threshold,
                   completedServerCount, remainingKeyServers, task, warned, receivedIds, errors,
                   aborted, signerCalls, sessionVars, now, paramsVars, cryptoVars,
                   majorityVars, clientVars,
                   moveVars, orderVars>>

(* a request bound by the shared signal alone: without a timeout signal it
   rejects only once the controller has aborted *)
RequestRejectsOnAbortOnly(s) ==
    /\ pc = "fetching"
    /\ task[s] = "pending"
    /\ aborted
    /\ task' = [task EXCEPT ![s] = "rejected"]
    /\ response' = <<>>
    /\ UNCHANGED <<cachedKeys, keyServersLoaded, pc, callNo, stage, result, fullIds, threshold,
                   completedServerCount, remainingKeyServers, warned, receivedIds, errors,
                   aborted, requestsSent, signerCalls, sessionVars, now, paramsVars,
                   cryptoVars, majorityVars, clientVars,
                   moveVars, orderVars>>

(* fetchKeysForAllIds rejects on its own: non-2xx response, network error, timeout *)
RequestRejects(s) ==
    /\ pc = "fetching"
    /\ task[s] = "pending"
    /\ task' = [task EXCEPT ![s] = "rejected"]
    /\ response' = <<>>
    /\ UNCHANGED <<cachedKeys, keyServersLoaded, pc, callNo, stage, result, fullIds, threshold,
                   completedServerCount, remainingKeyServers, warned, receivedIds, errors,
                   aborted, requestsSent, signerCalls, sessionVars, now, paramsVars,
                   cryptoVars, majorityVars, clientVars,
                   moveVars, orderVars>>

(* the rest of the try block, run when the awaited request has resolved with
   the keys allKeys *)
HandleResponse(s, allKeys) ==
    /\ pc = "fetching"
    /\ task[s] = "resolved"
    /\ LET received == VerifiedIds(s, allKeys)
           hasAllKeys == HasAllKeys(received, fullIds)
           completed == IF hasAllKeys THEN completedServerCount + 1 ELSE completedServerCount
           doAbort == hasAllKeys /\ ThresholdReached(completed, threshold)
           done == [task EXCEPT ![s] = "handledResolved"]
       IN /\ cachedKeys' = [k \in DOMAIN cachedKeys |->
                               IF k[2] = ObjectId(s) /\ k[1] \in received
                               THEN allKeys[k[1]] ELSE cachedKeys[k]]
          /\ warned' = (warned \/ \E f \in FullIds : allKeys[f] # NoKey /\ f \notin received)
          /\ receivedIds' = [receivedIds EXCEPT ![s] = received]
          /\ completedServerCount' = completed
          /\ aborted' = (aborted \/ doAbort)
          /\ task' = IF doAbort THEN AbortOutstanding(done) ELSE done
          /\ response' = IF \E f \in FullIds : allKeys[f] # NoKey /\ f \notin received
                         THEN <<s, allKeys>> ELSE <<>>
    /\ UNCHANGED <<keyServersLoaded, pc, callNo, stage, result, fullIds, threshold,
                   remainingKeyServers, errors, requestsSent, signerCalls,
                   sessionVars, now, paramsVars, cryptoVars, majorityVars, clientVars,
                   moveVars, orderVars>>

(* the errors a request can be rejected with: its own failure (non-2xx response,
   network error, timeout) or the abort of the shared controller *)
RejectionKinds(taskState) ==
    IF taskState = "rejected" THEN RequestErrorKinds ELSE {"AbortError"}

(* the catch block, run when the awaited request has rejected with an error *)
HandleError(s, errorName) ==
    /\ pc = "fetching"
    /\ task[s] \in {"rejected", "aborted"}
    /\ LET error == [name |-> errorName, server |-> s]
           errs == IF ~aborted THEN Append(errors, error) ELSE errors
           doAbort == BudgetExhausted(Cardinality(remainingKeyServers), Len(errs),
                                      threshold, completedServerCount)
           done == [task EXCEPT ![s] = IF task[s] = "rejected" THEN "handledRejected"
                                       ELSE "handledAborted"]
       IN /\ errors' = errs
          /\ response' = <<>>
          /\ aborted' = (aborted \/ doAbort)
          /\ task' = IF doAbort THEN AbortOutstanding(done) ELSE done
    /\ UNCHANGED <<cachedKeys, keyServersLoaded, pc, callNo, stage, result, fullIds, threshold,
                   completedServerCount, remainingKeyServers, warned, receivedIds, requestsSent,
                   signerCalls, sessionVars, now, paramsVars, cryptoVars, majorityVars, clientVars,
                   moveVars, orderVars>>

(* after Promise.allSettled(keyFetches) *)
FetchKeysSettled ==
    /\ pc = "fetching"
    /\ \A s \in remainingKeyServers : task[s] \in Handled
    /\ pc' = "idle"
    /\ stage' = "settled"
    /\ response' = <<>>
    /\ result' = IF completedServerCount < threshold THEN toMajorityError(errors) ELSE Ok
    /\ UNCHANGED <<cachedKeys, keyServersLoaded, callNo, fullIds, threshold,
                   completedServerCount, remainingKeyServers, task, warned, receivedIds,
                   errors, aborted, requestsSent, signerCalls, sessionVars, now,
                   paramsVars, cryptoVars, majorityVars, clientVars,
                   moveVars, orderVars>>

(* the session outlives its time to live while the client is idle *)
SessionLifetimeEnds ==
    /\ pc = "idle"
    /\ AdvanceClock(creationTimeMs + ttlMin * 60 * 1000)
    /\ signatureCheck' = NoSignatureCheck
    /\ UNCHANGED <<fetchVars, sessionVars, requestParams, requestTime, certificate, issued,
                   signing, signerMessage, cryptoVars, majorityVars, clientVars,
                   moveVars, orderVars>>

(***************************************************************************)
(* Specification of the fetch protocol.                                    *)
(***************************************************************************)
(* a client that has made no call *)
InitCall ==
    /\ keyServersLoaded = FALSE
    /\ pc = "idle"
    /\ callNo = 0
    /\ stage = "none"
    /\ result = NoResult
    /\ fullIds = {}
    /\ threshold = 0
    /\ completedServerCount = 0
    /\ remainingKeyServers = {}
    /\ task = [s \in Servers |-> "none"]
    /\ warned = FALSE
    /\ receivedIds = [s \in Servers |-> {}]
    /\ errors = <<>>
    /\ aborted = FALSE
    /\ requestsSent = 0
    /\ signerCalls = 0
    /\ response = <<>>
    /\ keyServersPromise = "null"
    /\ loading = "none"
    /\ unverified = {}
    /\ inFlight = 0
    /\ retrievals = 0
    /\ callers = [c \in 1..MaxCalls |-> [kind |-> "none", threshold |-> 0, status |-> "none"]]
    /\ services = <<>>
    /\ arrived = [s \in Servers |-> <<>>]
    /\ processed = {}

InitFetch ==
    /\ cachedKeys = [k \in FullIds \X ObjectIds |-> NoKey]
    /\ InitCall

InitParams ==
    /\ requestParams = "none"
    /\ requestTime = 0
    /\ certificate = [status |-> "none", value |-> <<>>]
    /\ issued = NotAuthorizedByUser
    /\ signing = 0
    /\ signatureCheck = NoSignatureCheck
    /\ signerMessage = <<>>

InitMajority ==
    /\ errList = <<>>
    /\ asserted = NotAsserted
    /\ majority = NoResult

InitCrypto ==
    /\ encryptionInput = NoInput
    /\ encryptArgs = NoArgs
    /\ decryption = NoDecryption
    /\ encrypted = NotEncrypted
    /\ keys = NoKeys
    /\ decrypted = NotDecrypted
    /\ shared = NotShared

NotCalled == [fun |-> "none", sender |-> "", id |-> <<>>, service |-> 0, status |-> "none"]

InitMove ==
    /\ vote = [voters |-> <<>>, votes |-> <<>>, result |-> <<>>, key_servers |-> <<>>,
               threshold |-> 0]
    /\ called = NotCalled
    /\ subscription = [fee |-> 0, ttl |-> 0, sub |-> <<>>]
    /\ clock = 0

Init ==
    /\ InitFetch
    /\ InitParams
    /\ InitMajority
    /\ InitCrypto
    /\ InitMove
    /\ serverObjectIds = [s \in Servers |-> ObjectId(s)]
    /\ verifyKeyServers = TRUE
    /\ invalidPops = {}
    /\ personalMessageSignature = NoSignature
    /\ hasSigner \in BOOLEAN
    /\ creationTimeMs = 0
    /\ ttlMin = 1
    /\ now = 0

Next ==
    \/ StartFetchKeys
    \/ \E s \in Servers : RequestResolves(s)
    \/ \E s \in Servers : RequestRejects(s)
    \/ \E s \in Servers :
          task[s] = "resolved" /\ \E allKeys \in Responses(s) : HandleResponse(s, allKeys)
    \/ \E s \in Servers :
          \E errorName \in RejectionKinds(task[s]) : HandleError(s, errorName)
    \/ FetchKeysSettled
    \/ SessionLifetimeEnds

Spec == Init /\ [][Next]_vars

(***************************************************************************)
(* The fetch protocol with its scheduling.  AbortSignal.timeout ends every  *)
(* request that is still outstanding when the client's timeout has passed,  *)
(* and the event loop runs every continuation that is ready: the rest of   *)
(* the try block, the catch block, and the code after Promise.allSettled.  *)
(* Nothing makes a server answer, so RequestResolves carries no fairness.  *)
(***************************************************************************)
RequestTimesOut == \E s \in Servers : RequestRejects(s)

Continuation ==
    \/ \E s \in Servers :
          task[s] = "resolved" /\ \E allKeys \in Responses(s) : HandleResponse(s, allKeys)
    \/ \E s \in Servers :
          \E errorName \in RejectionKinds(task[s]) : HandleError(s, errorName)
    \/ FetchKeysSettled

InitTermination == Init

(* the first fetchKeys call of a client *)
FirstFetchKeys ==
    /\ callNo = 0
    /\ StartFetchKeys

NextTermination ==
    \/ FirstFetchKeys
    \/ \E s \in Servers : RequestResolves(s)
    \/ RequestTimesOut
    \/ Continuation

SpecTermination ==
    /\ InitTermination
    /\ [][NextTermination]_vars
    /\ WF_vars(RequestTimesOut)
    /\ WF_vars(Continuation)

(***************************************************************************)
(* Specification of the session key: construction, the clock and           *)
(* createRequestParams.                                                    *)
(***************************************************************************)
CreateRequestParams ==
    /\ requestTime' = now
    /\ requestParams' = IF IsExpired(creationTimeMs, ttlMin, now)
                        THEN "ExpiredSessionKeyError" ELSE "ok"
    /\ signatureCheck' = NoSignatureCheck
    /\ UNCHANGED <<certificate, issued, signing, signerMessage, fetchVars, sessionVars, now, majorityVars,
                   cryptoVars, clientVars,
                   moveVars, orderVars>>

(* a setPersonalMessageSignature that also restarts the lifetime of the key *)
SetPersonalMessageSignatureRenews(signature, verifies) ==
    /\ verifies
    /\ personalMessageSignature' = signature
    /\ creationTimeMs' = now
    /\ signatureCheck' = [status |-> "ok", signature |-> signature, verifies |-> verifies]
    /\ issued' = IF issued = NotAuthorizedByUser THEN {} ELSE issued
    /\ UNCHANGED <<hasSigner, ttlMin, requestParams, requestTime, certificate, signing,
                   signerMessage,
                   fetchVars, now, majorityVars, cryptoVars, clientVars,
                   moveVars, orderVars>>

(* a setPersonalMessageSignature that stores the signature before verifying it *)
SetPersonalMessageSignatureUnverified(signature, verifies) ==
    /\ personalMessageSignature' = signature
    /\ signatureCheck' =
          [status |-> IF verifies THEN "ok" ELSE "InvalidPersonalMessageSignatureError",
           signature |-> signature, verifies |-> verifies]
    /\ issued' = IF verifies /\ issued = NotAuthorizedByUser THEN {} ELSE issued
    /\ UNCHANGED <<hasSigner, creationTimeMs, ttlMin, requestParams, requestTime, certificate,
                   signing, signerMessage, fetchVars, now, majorityVars, cryptoVars, clientVars,
                   moveVars, orderVars>>

(* setPersonalMessageSignature; verifies is the outcome of
   verifyPersonalMessageSignature against the address and the personal message *)
SetPersonalMessageSignature(signature, verifies) ==
    /\ personalMessageSignature' = IF verifies THEN signature ELSE personalMessageSignature
    /\ signatureCheck' =
          [status |-> IF verifies THEN "ok" ELSE "InvalidPersonalMessageSignatureError",
           signature |-> signature, verifies |-> verifies]
    /\ issued' = IF verifies /\ issued = NotAuthorizedByUser THEN {} ELSE issued
    /\ UNCHANGED <<hasSigner, creationTimeMs, ttlMin, requestParams, requestTime, certificate,
                   signing, signerMessage, fetchVars, now, majorityVars, cryptoVars, clientVars,
                   moveVars, orderVars>>

(* getPersonalMessage: the package id, the TTL, the creation time cut to the
   second and the session's public key *)
PersonalMessage(creation, ttl) ==
    [packageId |-> "packageId", ttl_min |-> ttl, creation_time_utc |-> creation \div 1000,
     session_vk |-> "sessionKey"]

(* a getCertificate that asks the Signer whether or not a signature is stored *)
GetCertificateSignsAgain ==
    /\ IF hasSigner
       THEN /\ signing < MaxCalls
            /\ signing' = signing + 1
            /\ signerMessage' = <<PersonalMessage(creationTimeMs, ttlMin)>>
            /\ UNCHANGED <<certificate, issued>>
       ELSE IF personalMessageSignature # NoSignature
       THEN /\ certificate' = [status |-> "ok", value |-> <<Certificate(personalMessageSignature)>>]
            /\ issued' = IF issued = NotAuthorizedByUser THEN issued
                          ELSE issued \cup {personalMessageSignature}
            /\ UNCHANGED <<signing, signerMessage>>
       ELSE /\ certificate' = [status |-> "InvalidPersonalMessageSignatureError", value |-> <<>>]
            /\ UNCHANGED <<signing, signerMessage, issued>>
    /\ signatureCheck' = NoSignatureCheck
    /\ UNCHANGED <<sessionVars, requestParams, requestTime, fetchVars, now, majorityVars,
                   cryptoVars, clientVars,
                   moveVars, orderVars>>

(* a getCertificate that does not use the Signer *)
GetCertificateWithoutSigner ==
    /\ IF personalMessageSignature # NoSignature
       THEN /\ certificate' = [status |-> "ok", value |-> <<Certificate(personalMessageSignature)>>]
            /\ issued' = IF issued = NotAuthorizedByUser THEN issued
                          ELSE issued \cup {personalMessageSignature}
       ELSE /\ certificate' = [status |-> "InvalidPersonalMessageSignatureError", value |-> <<>>]
            /\ UNCHANGED issued
    /\ signatureCheck' = NoSignatureCheck
    /\ UNCHANGED <<sessionVars, signing, signerMessage, requestParams, requestTime, fetchVars,
                   now, majorityVars, cryptoVars, clientVars,
                   moveVars, orderVars>>

(* getCertificate up to its return, its throw or the await of the Signer *)
GetCertificate ==
    /\ IF personalMessageSignature # NoSignature
       THEN /\ certificate' = [status |-> "ok", value |-> <<Certificate(personalMessageSignature)>>]
            /\ issued' = IF issued = NotAuthorizedByUser THEN issued
                          ELSE issued \cup {personalMessageSignature}
            /\ UNCHANGED <<signing, signerMessage>>
       ELSE IF hasSigner
       THEN /\ signing < MaxCalls
            /\ signing' = signing + 1
            /\ signerMessage' = <<PersonalMessage(creationTimeMs, ttlMin)>>
            /\ UNCHANGED <<certificate, issued>>
       ELSE /\ certificate' = [status |-> "InvalidPersonalMessageSignatureError", value |-> <<>>]
            /\ UNCHANGED <<signing, signerMessage, issued>>
    /\ signatureCheck' = NoSignatureCheck
    /\ UNCHANGED <<sessionVars, requestParams, requestTime, fetchVars, now, majorityVars,
                   cryptoVars, clientVars,
                   moveVars, orderVars>>

(* Signer.signPersonalMessage resolves and getCertificate stores the signature
   and returns *)
SignerReturns ==
    /\ signing > 0
    /\ signing' = signing - 1
    /\ personalMessageSignature' = "signer"
    /\ certificate' = [status |-> "ok", value |-> <<Certificate("signer")>>]
    /\ signatureCheck' = NoSignatureCheck
    /\ UNCHANGED <<hasSigner, creationTimeMs, ttlMin, requestParams, requestTime, issued,
                   signerMessage,
                   fetchVars, now, majorityVars, cryptoVars, clientVars,
                   moveVars, orderVars>>

(* the clock readings around the end of a session's life *)
TimePoints(creation) ==
    {creation + m * 60 * 1000 - 10000 + d : m \in MinTtlMin..MaxTtlMin, d \in {-1, 0, 1}}

ClockTick ==
    /\ \E t \in TimePoints(creationTimeMs) : AdvanceClock(t)
    /\ UNCHANGED <<fetchVars, sessionVars, paramsVars, cryptoVars, majorityVars, clientVars,
                   moveVars, orderVars>>

InitSession ==
    /\ InitFetch
    /\ InitParams
    /\ InitMajority
    /\ InitCrypto
    /\ InitMove
    /\ serverObjectIds = [s \in Servers |-> ObjectId(s)]
    /\ verifyKeyServers = TRUE
    /\ invalidPops = {}
    /\ personalMessageSignature = NoSignature
    /\ hasSigner \in BOOLEAN
    /\ creationTimeMs \in {0, 1000}
    /\ ttlMin \in MinTtlMin..MaxTtlMin
    /\ now = creationTimeMs

NextSession ==
    \/ CreateRequestParams
    \/ ClockTick

SpecSession == InitSession /\ [][NextSession]_vars

(***************************************************************************)
(* Specification of the authorization of a session key: the operations of  *)
(* SessionKey in any order, while the session lives and after it expired.  *)
(***************************************************************************)
NextAuthorization ==
    \/ \E signature \in UserSignatures, verifies \in BOOLEAN :
          SetPersonalMessageSignature(signature, verifies)
    \/ GetCertificate
    \/ SignerReturns
    \/ CreateRequestParams
    \/ SessionLifetimeEnds

InitAuthorization ==
    /\ InitSession
    /\ creationTimeMs = 0
    /\ ttlMin \in {MinTtlMin, MaxTtlMin}

SpecAuthorization == InitAuthorization /\ [][NextAuthorization]_vars

(***************************************************************************)
(* Specification of toMajorityError applied to every short error list.     *)
(***************************************************************************)
PushError(kind) ==
    /\ majority = NoResult
    /\ Len(errList) < MaxErrors
    /\ errList' = Append(errList, [name |-> kind, server |-> Len(errList) + 1])
    /\ UNCHANGED <<majority, asserted, fetchVars, sessionVars, now, paramsVars, cryptoVars,
                   clientVars,
                   moveVars, orderVars>>

ComputeMajority ==
    /\ majority = NoResult
    /\ majority' = toMajorityError(errList)
    /\ UNCHANGED <<errList, asserted, fetchVars, sessionVars, now, paramsVars, cryptoVars,
                   clientVars,
                   moveVars, orderVars>>

InitMajorityOnly ==
    /\ InitFetch
    /\ InitParams
    /\ InitMajority
    /\ InitCrypto
    /\ InitMove
    /\ serverObjectIds = [s \in Servers |-> ObjectId(s)]
    /\ verifyKeyServers = TRUE
    /\ invalidPops = {}
    /\ personalMessageSignature = NoSignature
    /\ hasSigner = FALSE
    /\ creationTimeMs = 0
    /\ ttlMin = MinTtlMin
    /\ now = 0

NextMajority ==
    \/ \E kind \in ErrorKinds : PushError(kind)
    \/ ComputeMajority

SpecMajority == InitMajorityOnly /\ [][NextMajority]_vars

(***************************************************************************)
(* Specification of SealAPIError.assertResponse applied to the responses   *)
(* of a key server.                                                        *)
(***************************************************************************)
ErrorValues ==
    {"InvalidPTB", "InvalidPackage", "NoAccess", "InvalidCertificate", "OldPackageVersion",
     "InvalidSignature", "InvalidSessionSignature", "Failure"}

HttpResponses ==
    [ok : {FALSE}, status : {400, 403, 429, 500, 503}, json : {TRUE},
     error : ErrorValues \cup {"Unknown", "undefined"}]
        \cup [ok : {FALSE}, status : {400, 403, 429, 500, 503}, json : {FALSE}, error : {""}]
        \cup [ok : {TRUE}, status : {200, 204}, json : {TRUE, FALSE}, error : {""}]

AssertResponse(res, requestId) ==
    /\ asserted' = [response |-> res, requestId |-> requestId,
                    thrown |-> assertResponse(res, requestId)]
    /\ UNCHANGED <<errList, majority, fetchVars, sessionVars, now, paramsVars, cryptoVars,
                   clientVars,
                   moveVars, orderVars>>

InitResponse == InitMajorityOnly

NextResponse ==
    \E res \in HttpResponses, requestId \in {"request-1", "request-2"} :
        AssertResponse(res, requestId)

SpecResponse == InitResponse /\ [][NextResponse]_vars

(***************************************************************************)
(* Specification of the loop over allKeys in fetchKeys: the entries of the *)
(* responses are taken in any order.                                       *)
(***************************************************************************)
(* the {fullId, key} entries a 2xx response of server s may carry *)
KeyEntries(s) ==
    UNION {{[fullId |-> f, key |-> k] : k \in KeyChoices(s, f) \ {NoKey}} : f \in FullIds}

AllKeysLists(s) == UNION {[1..n -> KeyEntries(s)] : n \in 1..Cardinality(FullIds)}

(* a loop body that caches the key without verifying it *)
CacheAnyKey(cache, s, entry) == [cache EXCEPT ![<<entry.fullId, ObjectId(s)>>] = entry.key]

(* the body of the loop over allKeys: verify, then #cachedKeys.set *)
CacheVerifiedKey(cache, s, entry) ==
    IF ~VerifyUserSecretKey(entry.key, entry.fullId, Pk(s)) THEN cache
    ELSE [cache EXCEPT ![<<entry.fullId, ObjectId(s)>>] = entry.key]

ResponseArrives(s, allKeys) ==
    /\ arrived[s] = <<>>
    /\ arrived' = [arrived EXCEPT ![s] = allKeys]
    /\ UNCHANGED <<processed, fetchVars, sessionVars, now, paramsVars, majorityVars, cryptoVars,
                   clientVars, moveVars>>

ProcessEntry(s, j) ==
    /\ j \in DOMAIN arrived[s]
    /\ <<s, j>> \notin processed
    /\ processed' = processed \cup {<<s, j>>}
    /\ cachedKeys' = CacheVerifiedKey(cachedKeys, s, arrived[s][j])
    /\ UNCHANGED <<arrived, keyServersLoaded, pc, callNo, stage, result, fullIds, threshold,
                   completedServerCount, remainingKeyServers, task, warned, receivedIds,
                   errors, aborted, requestsSent, signerCalls, response, sessionVars, now,
                   paramsVars, majorityVars, cryptoVars, clientVars, moveVars>>

(* the cache after the processed entries have been taken server by server,
   each response from its first entry to its last *)
RECURSIVE InOrder(_, _, _)
InOrder(cache, s, j) ==
    IF s > NumServers THEN cache
    ELSE IF j > Len(arrived[s]) THEN InOrder(cache, s + 1, 1)
    ELSE InOrder(IF <<s, j>> \in processed THEN CacheVerifiedKey(cache, s, arrived[s][j])
                 ELSE cache,
                 s, j + 1)

InitOrder == InitMajorityOnly

NextOrder ==
    \/ \E s \in Servers : \E allKeys \in AllKeysLists(s) : ResponseArrives(s, allKeys)
    \/ \E s \in Servers : \E j \in DOMAIN arrived[s] : ProcessEntry(s, j)

SpecOrder == InitOrder /\ [][NextOrder]_vars

(***************************************************************************)
(* Specification of envelope encryption and decryption.                    *)
(***************************************************************************)
Plaintexts == {<<>>, <<72, 105>>}
Aads == {<<>>, <<77>>}
EncryptionInputs ==
    [kind : {"Aes256Gcm", "Hmac256Ctr"}, plaintext : Plaintexts, aad : Aads]
        \cup {[kind |-> "Plain", plaintext |-> <<>>, aad |-> <<>>]}
BaseKeys == {[j \in 1..KeyLen |-> 17 + j], [j \in 1..KeyLen |-> 204 - 3 * j]}
Scalars == {3, 5}
CoefficientSeeds == {0, 173}
XCoordinates == 1..NumServers \cup {255}

(* one key server used MAX_U8 + 1 times *)
TooManyKeyServers == [i \in 1..(MAX_U8 + 1) |-> 1]

(* lists of key servers, a server possibly used several times *)
KeyServerLists(n) ==
    {l \in [1..n -> Servers] : \A i \in 1..(n - 1) : l[i] <= l[i + 1]}

(* the random choices externalSplit makes: the coefficients of the polynomial of
   each secret byte and the x-coordinates of the n shares *)
Coefficients(t) ==
    IF t < 2 THEN {[j \in 1..KeyLen |-> <<>>]}
    ELSE {[j \in 1..KeyLen |-> [d \in 1..(t - 1) |-> (c * (j + d)) % 256]] :
             c \in CoefficientSeeds}

XChoices(n, t) ==
    IF t < 2 \/ t > n THEN {[i \in 1..n |-> i]}
    ELSE {xs \in [1..n -> XCoordinates] : \A i \in 1..(n - 1) : xs[i] < xs[i + 1]}

(* key stores the client can hold: verified keys of one identity *)
KeyStores ==
    {[k \in FullIds \X ObjectIds |->
         IF k[1] = f /\ k[2] \in held
         THEN ExtractUserSecretKey(CHOOSE s \in Servers : ObjectId(s) = k[2], k[1])
         ELSE NoKey] : f \in FullIds, held \in SUBSET ObjectIds}

Encrypt(keyServers, t, packageId, id, input, key, r, coefficients, xCoordinates) ==
    /\ encrypted.status = "none"
    /\ encryptionInput' = input
    /\ encryptArgs' = [keyServers |-> keyServers, threshold |-> t, packageId |-> packageId]
    /\ encrypted' = encrypt(keyServers, t, packageId, id, input, key, r,
                            coefficients, xCoordinates)
    /\ shared' = [secret |-> key, n |-> Len(keyServers), threshold |-> t,
                   shares |-> IF encrypted'.status = "ok"
                              THEN split(key, Len(keyServers), t, coefficients, xCoordinates)
                              ELSE <<>>]
    /\ UNCHANGED <<keys, decrypted, decryption, fetchVars, sessionVars, now, paramsVars,
                   majorityVars, clientVars,
                   moveVars, orderVars>>

StartEncrypt ==
    /\ encrypted.status = "none"
    /\ \/ \E n \in 0..NumServers :
            \E keyServers \in KeyServerLists(n), t \in 0..(n + 1), packageId \in PackageIds,
               id \in InnerIds, input \in EncryptionInputs, key \in BaseKeys, r \in Scalars :
                \E coefficients \in Coefficients(t), xCoordinates \in XChoices(n, t) :
                    Encrypt(keyServers, t, packageId, id, input, key, r, coefficients,
                            xCoordinates)
       \/ \E packageId \in PackageIds, id \in InnerIds, input \in EncryptionInputs,
             key \in BaseKeys, r \in Scalars :
              Encrypt(TooManyKeyServers, 1, packageId, id, input, key, r, Coefficients(1),
                      [i \in 1..Len(TooManyKeyServers) |-> i])

Decrypt(keyStore) ==
    /\ encrypted.status = "ok"
    /\ decrypted.status = "none"
    /\ keys' = keyStore
    /\ decrypted' = decrypt(encrypted.encryptedObject, keyStore)
    /\ UNCHANGED <<encryptionInput, encryptArgs, encrypted, decryption, shared, fetchVars, sessionVars, now, paramsVars,
                   majorityVars, clientVars,
                   moveVars, orderVars>>

StartDecrypt ==
    /\ encrypted.status = "ok"
    /\ decrypted.status = "none"
    /\ \E keyStore \in KeyStores : Decrypt(keyStore)

InitCryptoOnly ==
    /\ InitFetch
    /\ InitParams
    /\ InitMajority
    /\ InitCrypto
    /\ InitMove
    /\ serverObjectIds = [s \in Servers |-> ObjectId(s)]
    /\ verifyKeyServers = TRUE
    /\ invalidPops = {}
    /\ personalMessageSignature = NoSignature
    /\ hasSigner = FALSE
    /\ creationTimeMs = 0
    /\ ttlMin = MinTtlMin
    /\ now = 0

NextCrypto ==
    \/ StartEncrypt
    \/ StartDecrypt

SpecCrypto == InitCryptoOnly /\ [][NextCrypto]_vars

(***************************************************************************)
(* Specification of the voting pattern (voting.move): one Vote object, its *)
(* voters casting encrypted votes, seal_approve and finalize_vote.  An     *)
(* Option is <<>> or <<value>>.                                            *)
(***************************************************************************)
VoteId == <<86>>
Voters == {"0x1", "0x2"}
Senders == Voters \cup {"0xA"}

(* encrypted votes a sender can submit: aad, services and threshold as
   cast_vote reads them; decrypted is what bf_hmac_encryption::decrypt returns
   for the object with valid keys *)
EncryptedVotes ==
    [aad : Senders, services : {vote.key_servers, <<>>},
     threshold : {vote.threshold, vote.threshold + 1},
     decrypted : {<<>>, <<<<7>>>>, <<<<7, 42>>>>}]

CastVote(encrypted_vote, sender) ==
    LET voter == {i \in DOMAIN vote.voters : vote.voters[i] = sender}
        index == CHOOSE i \in voter : \A j \in voter : i <= j
        status == IF encrypted_vote.aad # sender THEN "EInvalidVote"
                  ELSE IF encrypted_vote.services # vote.key_servers THEN "assert"
                  ELSE IF encrypted_vote.threshold # vote.threshold THEN "assert"
                  ELSE IF voter = {} THEN "EOPTION_NOT_SET"
                  ELSE IF vote.votes[index] # <<>> THEN "EOPTION_IS_SET"
                  ELSE "ok"
    IN /\ called' = [fun |-> "cast_vote", sender |-> sender, id |-> <<>>, service |-> 0,
                     status |-> status]
       /\ vote' = IF status = "ok"
                  THEN [vote EXCEPT !.votes[index] = <<encrypted_vote>>]
                  ELSE vote
       /\ UNCHANGED <<subscription, clock, fetchVars, sessionVars, now, paramsVars, majorityVars, cryptoVars,
                      clientVars, orderVars>>

(* a seal_approve that asks for one vote only *)
SealApproveAnyVote(id) ==
    /\ called' = [fun |-> "seal_approve", sender |-> "", id |-> id, service |-> 0,
                  status |-> IF id # VoteId THEN "EInvalidVote"
                             ELSE IF \A i \in DOMAIN vote.votes : vote.votes[i] = <<>>
                             THEN "EVoteNotDone"
                             ELSE "ok"]
    /\ UNCHANGED <<vote, subscription, clock, fetchVars, sessionVars, now, paramsVars, majorityVars, cryptoVars,
                   clientVars, orderVars>>

SealApprove(id) ==
    /\ called' = [fun |-> "seal_approve", sender |-> "", id |-> id, service |-> 0,
                  status |-> IF id # VoteId THEN "EInvalidVote"
                             ELSE IF \E i \in DOMAIN vote.votes : vote.votes[i] = <<>>
                             THEN "EVoteNotDone"
                             ELSE "ok"]
    /\ UNCHANGED <<vote, subscription, clock, fetchVars, sessionVars, now, paramsVars, majorityVars, cryptoVars,
                   clientVars, orderVars>>

(* the votes as finalize_vote maps them: decrypt, then a single byte or none *)
Tally(votes) ==
    [i \in DOMAIN votes |->
        IF votes[i][1].decrypted # <<>> /\ Len(votes[i][1].decrypted[1]) = 1
        THEN <<votes[i][1].decrypted[1][1]>>
        ELSE <<>>]

(* a finalize_vote without its first assertion *)
FinalizeVoteAgain(keysValid) ==
    LET status == IF vote.votes = <<>> THEN "ok"
                  ELSE IF vote.votes[1] = <<>> THEN "EOPTION_NOT_SET"
                  ELSE IF ~keysValid THEN "decrypt"
                  ELSE IF \E i \in DOMAIN vote.votes : vote.votes[i] = <<>>
                  THEN "EOPTION_NOT_SET"
                  ELSE "ok"
    IN /\ called' = [fun |-> "finalize_vote", sender |-> "", id |-> <<>>, service |-> 0,
                     status |-> status]
       /\ vote' = IF status = "ok"
                  THEN [vote EXCEPT !.result = <<[i \in DOMAIN vote.votes |-> <<>>]>>]
                  ELSE vote
       /\ UNCHANGED <<subscription, clock, fetchVars, sessionVars, now, paramsVars, majorityVars, cryptoVars,
                      clientVars, orderVars>>

(* finalize_vote; keysValid: the keys are enough and valid for the votes, so
   that decrypt does not abort *)
FinalizeVote(keysValid) ==
    LET status == IF vote.result # <<>> THEN "EAlreadyFinalized"
                  ELSE IF vote.votes = <<>> THEN "ok"
                  ELSE IF vote.votes[1] = <<>> THEN "EOPTION_NOT_SET"
                  ELSE IF ~keysValid THEN "decrypt"
                  ELSE IF \E i \in DOMAIN vote.votes : vote.votes[i] = <<>>
                  THEN "EOPTION_NOT_SET"
                  ELSE "ok"
    IN /\ called' = [fun |-> "finalize_vote", sender |-> "", id |-> <<>>, service |-> 0,
                     status |-> status]
       /\ vote' = IF status = "ok" THEN [vote EXCEPT !.result = <<Tally(vote.votes)>>]
                  ELSE vote
       /\ UNCHANGED <<subscription, clock, fetchVars, sessionVars, now, paramsVars, majorityVars, cryptoVars,
                      clientVars, orderVars>>

(* create_vote *)
InitVoting ==
    /\ InitFetch
    /\ InitParams
    /\ InitMajority
    /\ InitCrypto
    /\ serverObjectIds = [s \in Servers |-> ObjectId(s)]
    /\ verifyKeyServers = TRUE
    /\ invalidPops = {}
    /\ personalMessageSignature = NoSignature
    /\ hasSigner = FALSE
    /\ creationTimeMs = 0
    /\ ttlMin = MinTtlMin
    /\ now = 0
    /\ called = NotCalled
    /\ subscription = [fee |-> 0, ttl |-> 0, sub |-> <<>>]
    /\ clock = 0
    /\ \E n \in 0..MaxVoters :
        \E voters \in [1..n -> Voters], t \in {1, NumServers} :
            vote = [voters |-> voters, votes |-> [i \in 1..n |-> <<>>], result |-> <<>>,
                    key_servers |-> [s \in Servers |-> ObjectId(s)], threshold |-> t]

NextVoting ==
    \/ \E encrypted_vote \in EncryptedVotes, sender \in Senders :
          CastVote(encrypted_vote, sender)
    \/ \E id \in {VoteId, <<87>>} : SealApprove(id)
    \/ \E keysValid \in BOOLEAN : FinalizeVote(keysValid)

SpecVoting == InitVoting /\ [][NextVoting]_vars

(***************************************************************************)
(* Specification of the subscription pattern (subscription.move): two      *)
(* services, one Subscription, the clock and seal_approve.  A u64 has      *)
(* TimeBits bits here; an addition that does not fit aborts.               *)
(***************************************************************************)
MAX_U64 == 2 ^ TimeBits - 1
ServiceIds == {1, 2}

(* service.id.to_bytes() *)
Namespace(service) == <<1, service>>

KeyIds == {<<1, 1, 11>>, <<1, 1>>, <<1, 2, 11>>, <<1>>}

check_policy(id, sub, service, ttl, timestamp_ms) ==
    IF service # sub.service_id THEN "false"
    ELSE IF sub.created_at + ttl > MAX_U64 THEN "ARITHMETIC_ERROR"
    ELSE IF timestamp_ms > sub.created_at + ttl THEN "false"
    ELSE IF Len(Namespace(service)) > Len(id) THEN "false"
    ELSE IF \E i \in 1..Len(Namespace(service)) : Namespace(service)[i] # id[i] THEN "false"
    ELSE "true"

Subscribe(fee, service) ==
    /\ subscription.sub = <<>>
    /\ called' = [fun |-> "subscribe", sender |-> "", id |-> <<>>, service |-> service,
                  status |-> IF fee # subscription.fee THEN "EInvalidFee" ELSE "ok"]
    /\ subscription' =
          IF fee # subscription.fee THEN subscription
          ELSE [subscription EXCEPT
                   !.sub = <<[service_id |-> service, created_at |-> clock]>>]
    /\ UNCHANGED <<vote, clock, fetchVars, sessionVars, now, paramsVars, majorityVars,
                   cryptoVars, clientVars, orderVars>>

(* subscription::seal_approve *)
SealApproveSubscription(id, service) ==
    /\ subscription.sub # <<>>
    /\ called' =
          [fun |-> "seal_approve", sender |-> "", id |-> id, service |-> service,
           status |-> LET granted == check_policy(id, subscription.sub[1], service,
                                                   subscription.ttl, clock)
                      IN IF granted = "true" THEN "ok"
                         ELSE IF granted = "false" THEN "ENoAccess"
                         ELSE granted]
    /\ UNCHANGED <<vote, subscription, clock, fetchVars, sessionVars, now, paramsVars,
                   majorityVars, cryptoVars, clientVars, orderVars>>

(* the clock of the chain moves on *)
Tick ==
    /\ clock < MAX_U64
    /\ clock' = clock + 1
    /\ called' = NotCalled
    /\ UNCHANGED <<vote, subscription, fetchVars, sessionVars, now, paramsVars, majorityVars,
                   cryptoVars, clientVars, orderVars>>

(* create_service for both services, with the same fee and ttl *)
InitSubscription ==
    /\ InitFetch
    /\ InitParams
    /\ InitMajority
    /\ InitCrypto
    /\ serverObjectIds = [s \in Servers |-> ObjectId(s)]
    /\ verifyKeyServers = TRUE
    /\ invalidPops = {}
    /\ personalMessageSignature = NoSignature
    /\ hasSigner = FALSE
    /\ creationTimeMs = 0
    /\ ttlMin = MinTtlMin
    /\ now = 0
    /\ vote = [voters |-> <<>>, votes |-> <<>>, result |-> <<>>, key_servers |-> <<>>,
               threshold |-> 0]
    /\ called = NotCalled
    /\ \E ttl \in 0..MAX_U64 : subscription = [fee |-> 10, ttl |-> ttl, sub |-> <<>>]
    /\ clock = 0

NextSubscription ==
    \/ \E fee \in {9, 10}, service \in ServiceIds : Subscribe(fee, service)
    \/ \E id \in KeyIds, service \in ServiceIds : SealApproveSubscription(id, service)
    \/ Tick

SpecSubscription == InitSubscription /\ [][NextSubscription]_vars

(***************************************************************************)
(* Properties of fetchKeys (checked under Spec).                           *)
(***************************************************************************)
CallFinished == pc = "idle" /\ stage \in {"cache", "settled"}

ServerOf(objectId) == CHOOSE s \in Servers : ObjectId(s) = objectId

(* servers that held every requested key at the call, or returned verified
   keys for at least every requested fullId *)
ServersWithAllKeys ==
    {s \in Servers : \/ s \notin remainingKeyServers
                     \/ task[s] = "handledResolved" /\ fullIds \subseteq receivedIds[s]}

(* servers that held every requested key at the call, or returned verified
   keys for exactly the requested fullIds *)
ServersWithExactKeys ==
    {s \in Servers : \/ s \notin remainingKeyServers
                     \/ task[s] = "handledResolved" /\ receivedIds[s] = fullIds}

(* C1 as stated: a fetchKeys call that got past validation and request signing
   succeeds iff the servers that hold or returned valid keys for every requested
   fullId (possibly among keys for further fullIds) reach the threshold. *)
C1_SucceedsIffAllKeysReachThreshold ==
    CallFinished => (result = Ok <=> Cardinality(ServersWithAllKeys) >= threshold)

(* C1 amended: a fetchKeys call that got past validation and request signing
   succeeds iff the servers that held every requested key in the cache at the
   call, or whose response carried verified keys for exactly the requested
   fullIds, reach the threshold. *)
C1_SucceedsIffExactKeysReachThreshold ==
    CallFinished => (result = Ok <=> Cardinality(ServersWithExactKeys) >= threshold)

C1_Witness ==
    /\ CallFinished
    /\ stage = "settled"
    /\ result = Ok
    /\ Cardinality(ServersWithExactKeys) = threshold
    /\ \E s \in Servers : task[s] = "handledResolved" /\ receivedIds[s] # fullIds

(* C4: every key in the cache passes verifyUserSecretKey for its fullId against
   the public key of the server it is filed under. *)
C4_CacheHoldsOnlyVerifiedKeys ==
    \A k \in DOMAIN cachedKeys :
        cachedKeys[k] # NoKey =>
            VerifyUserSecretKey(cachedKeys[k], k[1], Pk(ServerOf(k[2])))

C4_Witness ==
    \E s \in Servers :
        /\ task[s] = "handledResolved"
        /\ warned
        /\ receivedIds[s] # {}
        /\ \A f \in FullIds : cachedKeys[<<f, ObjectId(s)>>] # NoKey <=> f \in receivedIds[s]
        /\ receivedIds[s] # FullIds

(* C5: when all tasks have settled with fewer than threshold completed servers,
   fetchKeys throws an error that is in the error buffer. *)
C5_FailsWithRecordedError ==
    (pc = "idle" /\ stage = "settled" /\ completedServerCount < threshold) =>
        \E i \in 1..Len(errors) : result = errors[i]

(* C7: at the end of a call the error buffer has exactly one entry for each
   request that failed on its own and none for a request that was cancelled. *)
C7_ErrorBufferIsTheOwnFailures ==
    (pc = "idle" /\ stage = "settled") =>
        \A s \in Servers :
            Cardinality({i \in 1..Len(errors) : errors[i].server = s})
                = IF task[s] = "handledRejected" THEN 1 ELSE 0

(* C8: the step in which the completed count reaches the threshold signals the
   cancellation and aborts every request that is still in flight. *)
C8_ThresholdStepAborts ==
    [][(pc = "fetching" /\ completedServerCount < threshold
            /\ completedServerCount' >= threshold)
        => (aborted' /\ \A s \in Servers : task[s] = "pending" => task'[s] = "aborted")]_vars

C8_Witness ==
    /\ pc = "fetching"
    /\ aborted
    /\ completedServerCount >= threshold
    /\ \E s \in Servers : task[s] = "aborted"

(* C9: a call with a resolved server list and a valid threshold, made when at
   least threshold servers have every requested fullId cached, returns
   successfully at once, sends no fetch_key request and does not invoke the
   Signer. *)
C9_CacheShortCircuit ==
    [][(/\ callNo' = callNo + 1
        /\ keyServersLoaded
        /\ threshold' \in 1..NumServers
        /\ Cardinality({s \in Servers :
               \A f \in fullIds' : cachedKeys[<<f, ObjectId(s)>>] # NoKey}) >= threshold')
        => (/\ result' = Ok
            /\ pc' = "idle"
            /\ requestsSent' = 0
            /\ signerCalls' = 0
            /\ personalMessageSignature' = personalMessageSignature)]_vars

C9_Witness ==
    /\ stage = "cache"
    /\ result = Ok
    /\ fullIds # {}
    /\ threshold >= 1
    /\ requestsSent = 0
    /\ callNo >= 2

(***************************************************************************)
(* Properties of the session key (checked under SpecSession).              *)
(***************************************************************************)
(* C10: createRequestParams succeeds exactly when the clock reads at most
   creationTimeMs + ttlMin * 60000 - 10000 and fails with ExpiredSessionKey
   otherwise. *)
C10_RequestParamsUntilExpiry ==
    requestParams # "none" =>
        /\ requestParams = "ok" <=> requestTime <= creationTimeMs + ttlMin * 60000 - 10000
        /\ requestParams # "ok" => requestParams = "ExpiredSessionKeyError"

C10_Witness ==
    /\ requestParams = "ok"
    /\ requestTime = creationTimeMs + ttlMin * 60000 - 10000

(***************************************************************************)
(* Properties of toMajorityError (checked under SpecMajority).             *)
(***************************************************************************)
Occurrences(list, kind) == {i \in 1..Len(list) : list[i].name = kind}

MostFrequent(list) ==
    {k \in ErrorKinds : /\ Occurrences(list, k) # {}
                        /\ \A j \in ErrorKinds :
                              Cardinality(Occurrences(list, j))
                                  <= Cardinality(Occurrences(list, k))}

FirstSeen(list, kind) ==
    CHOOSE i \in Occurrences(list, kind) : \A j \in Occurrences(list, kind) : i <= j

LastSeen(list, kind) ==
    CHOOSE i \in Occurrences(list, kind) : \A j \in Occurrences(list, kind) : j <= i

(* C6 as stated: the majority error is of a most frequent kind and, among tied
   kinds, of the kind seen first in the list. *)
C6_TieGoesToFirstSeen ==
    (majority # NoResult /\ errList # <<>>) =>
        /\ majority.name \in MostFrequent(errList)
        /\ \A k \in MostFrequent(errList) :
              FirstSeen(errList, majority.name) <= FirstSeen(errList, k)

(* C6 amended: the majority error is of a most frequent kind and, among tied
   kinds, of the kind that reached the maximal count first, that is, whose last
   occurrence comes earliest in the list. *)
C6_TieGoesToFirstToReachMax ==
    (majority # NoResult /\ errList # <<>>) =>
        /\ majority.name \in MostFrequent(errList)
        /\ \A k \in MostFrequent(errList) :
              LastSeen(errList, majority.name) <= LastSeen(errList, k)

C6_Witness ==
    /\ majority # NoResult
    /\ Cardinality(MostFrequent(errList)) >= 2
    /\ \E k \in MostFrequent(errList) :
          FirstSeen(errList, k) < FirstSeen(errList, majority.name)

(***************************************************************************)
(* Properties of encrypt and decrypt (checked under SpecCrypto).           *)
(***************************************************************************)
EnvelopeFullId ==
    createFullId(DST, encrypted.encryptedObject.packageId, encrypted.encryptedObject.id)

(* the services of the envelope whose correctly extracted user key is in the
   key store *)
ServicesWithKey ==
    {i \in 1..Len(encrypted.encryptedObject.services) :
        keys[<<EnvelopeFullId, encrypted.encryptedObject.services[i][1]>>]
            = ExtractUserSecretKey(ServerOf(encrypted.encryptedObject.services[i][1]),
                                   EnvelopeFullId)}

(* C2: decrypting the envelope produced by encrypt with a key store that holds
   correctly extracted user keys for at least threshold of the envelope's
   services returns the data that was encrypted (in Plain mode, which carries no
   data, the symmetric key encrypt returned). *)
C2_DecryptReturnsData ==
    (/\ decrypted.status # "none"
     /\ Cardinality(ServicesWithKey) >= encrypted.encryptedObject.threshold)
        => decrypted = Returned(IF encryptionInput.kind = "Plain" THEN encrypted.key
                                ELSE encryptionInput.plaintext)

C2_Witness ==
    /\ decrypted.status = "ok"
    /\ encryptionInput.kind = "Hmac256Ctr"
    /\ encryptionInput.plaintext # <<>>
    /\ decrypted.value = encryptionInput.plaintext
    /\ encrypted.encryptedObject.threshold >= 2
    /\ Cardinality(ServicesWithKey) >= encrypted.encryptedObject.threshold
    /\ \E i, j \in 1..Len(encrypted.encryptedObject.services) :
          encrypted.encryptedObject.services[i][1]
              # encrypted.encryptedObject.services[j][1]

(* C3: decrypt given a key store that holds valid user keys for fewer than
   threshold of the envelope's services fails with the insufficient-shares
   error (a plain Error with the not-enough-shares message) and returns no
   plaintext. *)
C3_TooFewKeysFail ==
    (/\ decrypted.status # "none"
     /\ Cardinality(ServicesWithKey) < encrypted.encryptedObject.threshold)
        => decrypted = Thrown("Error", NotEnoughSharesMessage)

C3_Witness ==
    /\ decrypted = Thrown("Error", NotEnoughSharesMessage)
    /\ encrypted.encryptedObject.threshold >= 2
    /\ Cardinality(ServicesWithKey) = encrypted.encryptedObject.threshold - 1

(***************************************************************************)
(* SealClient: the lazily loaded key server list and the calls of encrypt,  *)
(* fetchKeys and decrypt that await it.                                     *)
(***************************************************************************)
(* lists of key server object ids, as given to the constructor or named in an
   envelope; an id may occur more than once *)
ObjectIdLists == UNION {[1..n -> ObjectIds] : n \in 0..NumServers}

validateEncryptionServicesAtLeast(objectIds, serviceIds, t) ==
    LET count(list, x) == Cardinality({i \in DOMAIN list : list[i] = x})
    IN IF \E i \in DOMAIN objectIds :
             count(serviceIds, objectIds[i]) < count(objectIds, objectIds[i])
       THEN "InconsistentKeyServersError"
       ELSE IF t > Len(objectIds) THEN "InvalidThresholdError" ELSE "ok"

validateEncryptionServicesOfEnvelope(objectIds, serviceIds, t) ==
    LET count(list, x) == Cardinality({i \in DOMAIN list : list[i] = x})
    IN IF \E j \in DOMAIN serviceIds :
             count(objectIds, serviceIds[j]) # count(serviceIds, serviceIds[j])
       THEN "InconsistentKeyServersError"
       ELSE IF t > Len(objectIds) THEN "InvalidThresholdError" ELSE "ok"

(* #validateEncryptionServices: the error it throws, or "ok" *)
validateEncryptionServices(objectIds, serviceIds, t) ==
    LET count(list, x) == Cardinality({i \in DOMAIN list : list[i] = x})
    IN IF \E i \in DOMAIN objectIds :
             count(serviceIds, objectIds[i]) # count(objectIds, objectIds[i])
       THEN "InconsistentKeyServersError"
       ELSE IF t > Len(objectIds) THEN "InvalidThresholdError" ELSE "ok"

NeedsLoadUnlessFulfilled(promise) == promise # "fulfilled"

(* getKeyServers: if (!this.#keyServers) *)
NeedsLoad(promise) == promise = "null"

AfterGetKeyServersLowerBoundFree(kind, t, n) ==
    IF kind # "encrypt" /\ (t > n \/ n < 1) THEN "InvalidThresholdError" ELSE "continues"

(* what a call does once it has the key server list: fetchKeys, also when
   called by decrypt, tests the threshold and goes on to the cache and the
   requests; encrypt goes on to encrypt *)
AfterGetKeyServers(kind, t, n) ==
    IF kind # "encrypt" /\ (t > n \/ t < 1 \/ n < 1) THEN "InvalidThresholdError"
    ELSE "continues"

(* a getKeyServers without the catch handler: the rejected promise stays in
   #keyServers *)
SettleKeepsRejection(error) ==
    /\ keyServersPromise' = IF error = "none" THEN "fulfilled" ELSE "rejected"
    /\ inFlight' = inFlight - 1
    /\ loading' = "none"
    /\ unverified' = {}
    /\ callers' = [c \in DOMAIN callers |->
                     IF callers[c].status # "awaiting" THEN callers[c]
                     ELSE [callers[c] EXCEPT !.status =
                              IF error # "none" THEN error
                              ELSE AfterGetKeyServers(callers[c].kind, callers[c].threshold,
                                                      Len(serverObjectIds))]]

(* the promise held in #keyServers settles, with error "none" when it fulfils:
   the catch handler resets the field on a rejection, and every call awaiting
   the promise resumes; the checks of Promise.all that are still running are
   no longer awaited *)
Settle(error) ==
    /\ keyServersPromise' = IF error = "none" THEN "fulfilled" ELSE "null"
    /\ inFlight' = inFlight - 1
    /\ loading' = "none"
    /\ unverified' = {}
    /\ callers' = [c \in DOMAIN callers |->
                     IF callers[c].status # "awaiting" THEN callers[c]
                     ELSE [callers[c] EXCEPT !.status =
                              IF error # "none" THEN error
                              ELSE AfterGetKeyServers(callers[c].kind, callers[c].threshold,
                                                      Len(serverObjectIds))]]

(* a call of encrypt, fetchKeys or decrypt up to its await of getKeyServers,
   and beyond it when the list is already there; serviceIds are the services
   of the envelope, for decrypt *)
Call(c, kind, serviceIds, t) ==
    /\ callers[c].kind = "none"
    /\ \A d \in 1..(c - 1) : callers[d].kind # "none"
    /\ services' = serviceIds
    /\ LET validation == IF kind = "decrypt"
                         THEN validateEncryptionServices(serverObjectIds, serviceIds, t)
                         ELSE "ok"
           status == IF validation # "ok" THEN validation
                     ELSE IF keyServersPromise = "fulfilled"
                     THEN AfterGetKeyServers(kind, t, Len(serverObjectIds))
                     ELSE "awaiting"
       IN /\ callers' = [callers EXCEPT
                            ![c] = [kind |-> kind, threshold |-> t, status |-> status]]
          /\ IF validation = "ok" /\ NeedsLoad(keyServersPromise)
             THEN /\ keyServersPromise' = "pending"
                  /\ loading' = "retrieve"
                  /\ inFlight' = inFlight + 1
                  /\ retrievals' = retrievals + 1
                  /\ unverified' = {}
             ELSE UNCHANGED <<keyServersPromise, loading, inFlight, retrievals, unverified>>
    /\ UNCHANGED <<serverObjectIds, verifyKeyServers, invalidPops, fetchVars, sessionVars, now,
                   paramsVars, majorityVars, cryptoVars,
                   moveVars, orderVars>>

(* retrieveKeyServers settles, with error "none" when it returns the list *)
RetrieveSettles(error) ==
    /\ loading = "retrieve"
    /\ error = "none" \/ Len(serverObjectIds) > 0
    /\ services' = <<>>
    /\ IF error # "none"
       THEN Settle(error)
       ELSE IF Len(serverObjectIds) = 0
       THEN Settle("InvalidKeyServerError")
       ELSE IF verifyKeyServers
       THEN /\ loading' = "verify"
            /\ unverified' = DOMAIN serverObjectIds
            /\ UNCHANGED <<keyServersPromise, inFlight, callers>>
       ELSE Settle("none")
    /\ UNCHANGED <<serverObjectIds, verifyKeyServers, invalidPops, retrievals, fetchVars,
                   sessionVars, now, paramsVars, majorityVars, cryptoVars,
                   moveVars, orderVars>>

VerifySettlesUnchecked(i, error) ==
    /\ loading = "verify"
    /\ i \in unverified
    /\ services' = <<>>
    /\ IF error # "none"
       THEN Settle(error)
       ELSE IF unverified = {i}
       THEN Settle("none")
       ELSE /\ unverified' = unverified \ {i}
            /\ UNCHANGED <<keyServersPromise, loading, inFlight, callers>>
    /\ UNCHANGED <<serverObjectIds, verifyKeyServers, invalidPops, retrievals, fetchVars,
                   sessionVars, now, paramsVars, majorityVars, cryptoVars,
                   moveVars, orderVars>>

(* verifyKeyServer of the i-th server settles, with error "none" when it
   returns whether the proof of possession verifies; Promise.all rejects with
   the first rejection and fulfils when every check has passed *)
VerifySettles(i, error) ==
    /\ loading = "verify"
    /\ i \in unverified
    /\ services' = <<>>
    /\ IF error # "none"
       THEN Settle(error)
       ELSE IF serverObjectIds[i] \in invalidPops
       THEN Settle("InvalidKeyServerError")
       ELSE IF unverified = {i}
       THEN Settle("none")
       ELSE /\ unverified' = unverified \ {i}
            /\ UNCHANGED <<keyServersPromise, loading, inFlight, callers>>
    /\ UNCHANGED <<serverObjectIds, verifyKeyServers, invalidPops, retrievals, fetchVars,
                   sessionVars, now, paramsVars, majorityVars, cryptoVars,
                   moveVars, orderVars>>

(* a client constructed with the first n key servers *)
InitClient ==
    /\ InitFetch
    /\ InitParams
    /\ InitMajority
    /\ InitCrypto
    /\ InitMove
    /\ serverObjectIds \in {[i \in 1..n |-> ObjectId(i)] : n \in 0..NumServers}
    /\ verifyKeyServers \in BOOLEAN
    /\ invalidPops \in SUBSET ObjectIds
    /\ personalMessageSignature = NoSignature
    /\ hasSigner = FALSE
    /\ creationTimeMs = 0
    /\ ttlMin = MinTtlMin
    /\ now = 0

NextClient ==
    \/ \E c \in 1..MaxCalls : Call(c, "encrypt", <<>>, 1)
    \/ \E c \in 1..MaxCalls, t \in {0, 1, NumServers + 1} : Call(c, "fetchKeys", <<>>, t)
    \/ \E c \in 1..MaxCalls, serviceIds \in {<<>>, serverObjectIds}, t \in {0, 1, NumServers + 1} :
          Call(c, "decrypt", serviceIds, t)
    \/ \E error \in {"none", "InvalidGetObjectError"} : RetrieveSettles(error)
    \/ \E i \in unverified, error \in {"none", "TimeoutError"} : VerifySettles(i, error)

SpecClient == InitClient /\ [][NextClient]_vars

(***************************************************************************)
(* Specification of #validateEncryptionServices: one decrypt call of a      *)
(* client constructed with any list of object ids, for any envelope.        *)
(***************************************************************************)
InitValidation ==
    /\ InitFetch
    /\ InitParams
    /\ InitMajority
    /\ InitCrypto
    /\ InitMove
    /\ serverObjectIds \in ObjectIdLists
    /\ verifyKeyServers = TRUE
    /\ invalidPops = {}
    /\ personalMessageSignature = NoSignature
    /\ hasSigner = FALSE
    /\ creationTimeMs = 0
    /\ ttlMin = MinTtlMin
    /\ now = 0

NextValidation ==
    \E serviceIds \in ObjectIdLists, t \in 0..(NumServers + 1) : Call(1, "decrypt", serviceIds, t)

SpecValidation == InitValidation /\ [][NextValidation]_vars

(***************************************************************************)
(* Specification of SealClient.decrypt on data from outside: an envelope   *)
(* made by encrypt, as it is or with its threshold or its list of          *)
(* encrypted shares changed before it was serialized, or cut short.        *)
(***************************************************************************)
Envelopes(o) ==
    {o,
     [o EXCEPT !.threshold = 0],
     [o EXCEPT !.threshold = Len(o.services) + 1],
     [o EXCEPT !.encryptedShares.encryptedShares = SubSeq(@, 1, Len(@) - 1)],
     [o EXCEPT !.encryptedShares.encryptedShares = Append(@, @[1])]}

EnvelopeData(o) ==
    {serialize(e) : e \in Envelopes(o)} \cup {SubSeq(serialize(o), 1, Len(serialize(o)) - 1)}

(* SealClient.decrypt: loadError is the outcome of getKeyServers in fetchKeys,
   fetchError the outcome of the rest of fetchKeys once the threshold test
   has passed, keyStore the cache after it *)
ClientDecrypt(data, loadError, fetchError, keyStore) ==
    LET encryptedObject == parse(data)
        o == encryptedObject.value[1]
        Stopped(at, status) ==
            /\ decryption' = [data |-> data, stage |-> at, status |-> status]
            /\ UNCHANGED <<keys, decrypted>>
    IN
    /\ decryption.stage = "none"
    /\ Len(serverObjectIds) = 0 => loadError # "none"
    /\ IF encryptedObject.status # "ok" THEN Stopped("parse", encryptedObject.status)
       ELSE IF validateEncryptionServices(serverObjectIds,
                                          [i \in 1..Len(o.services) |-> o.services[i][1]],
                                          o.threshold) # "ok"
       THEN Stopped("validateEncryptionServices",
                    validateEncryptionServices(serverObjectIds,
                                               [i \in 1..Len(o.services) |-> o.services[i][1]],
                                               o.threshold))
       ELSE IF loadError # "none" THEN Stopped("getKeyServers", loadError)
       ELSE IF AfterGetKeyServers("decrypt", o.threshold, Len(serverObjectIds)) # "continues"
       THEN Stopped("threshold", "InvalidThresholdError")
       ELSE IF fetchError # "none" THEN Stopped("fetchKeys", fetchError)
       ELSE /\ keys' = keyStore
            /\ decrypted' = decrypt(o, keyStore)
            /\ decryption' = [data |-> data, stage |-> "decrypt",
                              status |-> decrypt(o, keyStore).status]
    /\ UNCHANGED <<encryptionInput, encryptArgs, encrypted, shared, fetchVars, sessionVars, now,
                   paramsVars, majorityVars, clientVars,
                   moveVars, orderVars>>

InitEnvelope ==
    /\ InitFetch
    /\ InitParams
    /\ InitMajority
    /\ InitMove
    /\ keys = NoKeys
    /\ decrypted = NotDecrypted
    /\ decryption = NoDecryption
    /\ shared = NotShared
    /\ \E n \in 1..NumServers :
        \E keyServers \in KeyServerLists(n), t \in 1..n,
           input \in {i \in EncryptionInputs : i.kind = "Plain" \/ Len(i.plaintext) > Len(i.aad)} :
            \E coefficients \in Coefficients(t), xCoordinates \in XChoices(n, t) :
                /\ encryptionInput = input
                /\ encryptArgs = [keyServers |-> keyServers, threshold |-> t,
                                  packageId |-> <<0>>]
                /\ encrypted = encrypt(keyServers, t, <<0>>, <<1>>, input,
                                       [j \in 1..KeyLen |-> 17 + j], 3, coefficients,
                                       xCoordinates)
    /\ serverObjectIds \in {[i \in 1..n |-> ObjectId(i)] : n \in 0..NumServers}
    /\ verifyKeyServers = TRUE
    /\ invalidPops = {}
    /\ personalMessageSignature = NoSignature
    /\ hasSigner = FALSE
    /\ creationTimeMs = 0
    /\ ttlMin = MinTtlMin
    /\ now = 0

NextEnvelope ==
    \E data \in EnvelopeData(encrypted.encryptedObject),
       loadError \in {"none", "InvalidGetObjectError"},
       fetchError \in {"none", "NoAccessError"}, keyStore \in KeyStores :
        ClientDecrypt(data, loadError, fetchError, keyStore)

SpecEnvelope == InitEnvelope /\ [][NextEnvelope]_vars

(***************************************************************************)
(* Specification of SealClient.decrypt with its fetchKeys call played out  *)
(* request by request: one decrypt call on a client whose cache holds keys *)
(* of earlier calls.                                                       *)
(***************************************************************************)
(* #cachedKeys as decrypt reads it: keys.has is false for every other key *)
CacheAsMap(cache, fullId) ==
    [k \in (FullIds \cup {fullId}) \X ObjectIds |->
        IF k \in DOMAIN cache THEN cache[k] ELSE NoKey]

(* EncryptedObject.parse(data) of the bytes of the envelope *)
ParsedEnvelope == parse(serialize(encrypted.encryptedObject)).value[1]

ValidatedEnvelope ==
    validateEncryptionServices(serverObjectIds,
                               [i \in 1..Len(ParsedEnvelope.services) |->
                                           ParsedEnvelope.services[i][1]],
                               ParsedEnvelope.threshold)

(* decrypt up to a throw of #validateEncryptionServices *)
DecryptRejects ==
    /\ pc = "idle"
    /\ callNo = 0
    /\ decryption.stage = "none"
    /\ ValidatedEnvelope # "ok"
    /\ decryption' = [data |-> serialize(encrypted.encryptedObject),
                      stage |-> "validateEncryptionServices", status |-> ValidatedEnvelope]
    /\ UNCHANGED <<encryptionInput, encryptArgs, encrypted, keys, decrypted, shared, fetchVars,
                   sessionVars, now, paramsVars, majorityVars, clientVars, moveVars,
                   orderVars>>

(* decrypt up to the dispatch of the requests of its fetchKeys call *)
DecryptFetchKeys(loadError) ==
    /\ callNo = 0
    /\ decryption.stage = "none"
    /\ ValidatedEnvelope = "ok"
    /\ FetchKeys({ParsedEnvelope.id}, ParsedEnvelope.threshold, loadError)

(* decrypt after its fetchKeys call has returned or thrown *)
DecryptResumes ==
    /\ pc = "idle"
    /\ callNo = 1
    /\ decryption.stage = "none"
    /\ IF result # Ok
       THEN /\ decryption' = [data |-> serialize(encrypted.encryptedObject),
                              stage |-> "fetchKeys", status |-> result.name]
            /\ UNCHANGED <<keys, decrypted>>
       ELSE LET store == CacheAsMap(cachedKeys,
                                    createFullId(DST, ParsedEnvelope.packageId,
                                                 ParsedEnvelope.id))
            IN /\ keys' = store
               /\ decrypted' = decrypt(ParsedEnvelope, store)
               /\ decryption' = [data |-> serialize(encrypted.encryptedObject),
                                 stage |-> "decrypt",
                                 status |-> decrypt(ParsedEnvelope, store).status]
    /\ UNCHANGED <<encryptionInput, encryptArgs, encrypted, shared, fetchVars, sessionVars, now,
                   paramsVars, majorityVars, clientVars, moveVars, orderVars>>

InitDecrypt ==
    /\ InitCall
    /\ InitParams
    /\ InitMajority
    /\ InitMove
    /\ cachedKeys \in KeyStores
    /\ keys = NoKeys
    /\ decrypted = NotDecrypted
    /\ decryption = NoDecryption
    /\ shared = NotShared
    /\ encryptionInput = [kind |-> "Plain", plaintext |-> <<>>, aad |-> <<>>]
    /\ \E n \in 1..NumServers :
        \E keyServers \in KeyServerLists(n), t \in 1..n, packageId \in SuiObjectIds :
            /\ encryptArgs = [keyServers |-> keyServers, threshold |-> t,
                              packageId |-> packageId]
            /\ encrypted = encrypt(keyServers, t, packageId, <<1>>, encryptionInput,
                                   [j \in 1..KeyLen |-> 17 + j], 3,
                                   [j \in 1..KeyLen |-> [d \in 1..(t - 1) |-> 173]],
                                   [i \in 1..n |-> i])
    /\ serverObjectIds = [s \in Servers |-> ObjectId(s)]
    /\ verifyKeyServers = TRUE
    /\ invalidPops = {}
    /\ personalMessageSignature = NoSignature
    /\ hasSigner = TRUE
    /\ creationTimeMs = 0
    /\ ttlMin = MinTtlMin
    /\ now = 0

NextDecrypt ==
    \/ DecryptRejects
    \/ \E loadError \in {"none", "InvalidGetObjectError"} : DecryptFetchKeys(loadError)
    \/ \E s \in Servers : RequestResolves(s)
    \/ \E s \in Servers : RequestRejects(s)
    \/ \E s \in Servers :
          task[s] = "resolved" /\ \E allKeys \in Responses(s) : HandleResponse(s, allKeys)
    \/ \E s \in Servers :
          \E errorName \in RejectionKinds(task[s]) : HandleError(s, errorName)
    \/ FetchKeysSettled
    \/ DecryptResumes

SpecDecrypt == InitDecrypt /\ [][NextDecrypt]_vars

(* C23: encrypt called with threshold 0, with a threshold above the number of
   key servers, with more than 255 key servers or with a package id that is
   not a valid object id ends with UserError and returns neither an envelope
   nor a key. *)
C23_BadArgumentsAreUserErrors ==
    (/\ encrypted.status # "none"
     /\ \/ encryptArgs.threshold = 0
        \/ encryptArgs.threshold > Len(encryptArgs.keyServers)
        \/ Len(encryptArgs.keyServers) > 255
        \/ encryptArgs.packageId \notin SuiObjectIds)
        => encrypted = [status |-> "UserError", encryptedObject |-> NoObject, key |-> <<>>]

C23_Witness ==
    /\ encrypted.status = "UserError"
    /\ encryptArgs.threshold = 1
    /\ Len(encryptArgs.keyServers) = 256
    /\ encryptArgs.packageId \in SuiObjectIds

(***************************************************************************)
(* Properties of SealClient.decrypt on data from outside (checked under    *)
(* SpecEnvelope).                                                          *)
(***************************************************************************)
(* the data handed to decrypt is the wire form of an envelope whose number of
   encrypted shares differs from its number of services *)
ShareCountMismatch ==
    \E e \in Envelopes(encrypted.encryptedObject) :
        /\ Len(e.encryptedShares.encryptedShares) # Len(e.services)
        /\ decryption.data = serialize(e)

(* C24 as stated: an envelope whose number of encrypted shares differs from its
   number of services fails parsing with InvalidCiphertext. *)
C24_MismatchFailsParsing ==
    (decryption.stage # "none" /\ ShareCountMismatch)
        => (decryption.stage = "parse" /\ decryption.status = "InvalidCiphertextError")

(* C24 amended: an envelope whose number of encrypted shares differs from its
   number of services passes parsing and is never decrypted: the call fails,
   with InvalidCiphertext only in the decrypt step that follows a successful
   fetchKeys, and there exactly if the key store holds keys of at least
   threshold of the envelope's services (the too-few-shares Error otherwise). *)
C24_MismatchFailsInDecrypt ==
    (decryption.stage # "none" /\ ShareCountMismatch)
        => (/\ decryption.stage # "parse"
            /\ decryption.status # "ok"
            /\ decryption.status = "InvalidCiphertextError" => decryption.stage = "decrypt"
            /\ decryption.stage = "decrypt"
                  => decrypted =
                        IF Cardinality(ServicesWithKey) >= encrypted.encryptedObject.threshold
                        THEN [status |-> "InvalidCiphertextError", value |-> <<>>,
                              message |-> "share count mismatch"]
                        ELSE [status |-> "Error", value |-> <<>>,
                              message |-> NotEnoughSharesMessage])

C24_Witness ==
    /\ ShareCountMismatch
    /\ decryption.stage = "decrypt"
    /\ decrypted.status = "InvalidCiphertextError"
    /\ Cardinality(ServicesWithKey) >= encrypted.encryptedObject.threshold

(* the data handed to decrypt is the wire form of an envelope whose threshold
   is 0 or greater than its number of services *)
ThresholdOutOfRange ==
    \E e \in Envelopes(encrypted.encryptedObject) :
        /\ e.threshold = 0 \/ e.threshold > Len(e.services)
        /\ decryption.data = serialize(e)

(* C25 as stated: an envelope whose threshold is 0 or greater than its number
   of services fails parsing. *)
C25_BadThresholdFailsParsing ==
    (decryption.stage # "none" /\ ThresholdOutOfRange)
        => (decryption.stage = "parse" /\ decryption.status # "ok")

(* C25 amended: an envelope whose threshold is 0 or greater than its number of
   services passes parsing, and decrypt fails on it before the cache is read,
   a key requested or a share recombined: with InconsistentKeyServers from the
   reconciliation, with the error of the key server list, or with
   InvalidThreshold. *)
C25_BadThresholdStopsBeforeFetching ==
    (decryption.stage # "none" /\ ThresholdOutOfRange)
        => (/\ \/ /\ decryption.stage = "validateEncryptionServices"
                  /\ decryption.status \in {"InconsistentKeyServersError",
                                            "InvalidThresholdError"}
               \/ /\ decryption.stage = "getKeyServers"
                  /\ decryption.status = "InvalidGetObjectError"
               \/ /\ decryption.stage = "threshold"
                  /\ decryption.status = "InvalidThresholdError"
            /\ keys = NoKeys
            /\ decrypted = NotDecrypted)

C25_Witness ==
    /\ ThresholdOutOfRange
    /\ decryption.stage = "threshold"
    /\ decryption.status = "InvalidThresholdError"
    /\ Len(serverObjectIds) = Len(encrypted.encryptedObject.services)

(***************************************************************************)
(* Properties of the errors of a key server (checked under SpecResponse).  *)
(***************************************************************************)
(* C26: for every response that is not 2xx assertResponse throws a server
   error, GeneralError if the body is not JSON or its error field is not one
   of the known values, and the error carries the request id of the request
   and the HTTP status of the response. *)
C26_ServerErrorCarriesIdAndStatus ==
    ~asserted.response.ok
        => (/\ asserted.thrown.name # "none"
            /\ (~asserted.response.json \/ asserted.response.error \notin ErrorValues)
                  => asserted.thrown.name = "GeneralError"
            /\ asserted.thrown.requestId = asserted.requestId
            /\ asserted.thrown.status = asserted.response.status)

(***************************************************************************)
(* Properties of the voting pattern (checked under SpecVoting).            *)
(***************************************************************************)
(* C27: a seal_approve call that succeeded asked for the id of the vote and
   found a vote cast by every listed voter; while some voter has not voted,
   the last seal_approve call did not succeed. *)
C27_ApprovedOnlyWhenAllVoted ==
    (called.fun = "seal_approve" /\ called.status = "ok")
        => (/\ called.id = VoteId
            /\ \A i \in DOMAIN vote.voters :
                  \E j \in DOMAIN vote.votes :
                      vote.votes[j] # <<>> /\ vote.votes[j][1].aad = vote.voters[i]
            /\ \A j \in DOMAIN vote.votes : vote.votes[j] # <<>>)

C27_Witness ==
    /\ called.fun = "seal_approve"
    /\ called.status = "ok"
    /\ Len(vote.voters) >= 2
    /\ vote.voters[1] # vote.voters[2]

(* C28: once the result of a vote is set no step changes it, and every
   finalize_vote call made after that aborts with EAlreadyFinalized. *)
C28_ResultSetOnce ==
    [][vote.result # <<>>
        => (/\ vote'.result = vote.result
            /\ called'.fun = "finalize_vote" => called'.status = "EAlreadyFinalized")]_vars

C28_Witness ==
    /\ vote.result # <<>>
    /\ Len(vote.result[1]) >= 2
    /\ called.fun = "finalize_vote"
    /\ called.status = "EAlreadyFinalized"

(***************************************************************************)
(* Properties of the subscription pattern (checked under SpecSubscription).*)
(***************************************************************************)
(* C29: seal_approve of an id that starts with the bytes of the id of the
   subscription's service succeeds if the clock is at most created_at + ttl,
   and does not succeed at any later time. *)
C29_AccessUntilCreationPlusTtl ==
    (/\ called.fun = "seal_approve"
     /\ subscription.sub # <<>>
     /\ called.service = subscription.sub[1].service_id
     /\ Len(called.id) >= 2
     /\ SubSeq(called.id, 1, 2) = <<1, called.service>>)
        => (called.status = "ok"
               <=> clock <= subscription.sub[1].created_at + subscription.ttl)

(***************************************************************************)
(* Properties of the authorization of a session key (checked under         *)
(* SpecAuthorization).                                                     *)
(***************************************************************************)
(* C11: once the clock has passed creationTimeMs + ttlMin * 60000 - 10000, every
   operation on the session leaves it expired, and every createRequestParams
   call fails with ExpiredSessionKey. *)
C11_ExpiredStaysUnusable ==
    [][(now > creationTimeMs + ttlMin * 60000 - 10000)
        => (/\ now' > creationTimeMs' + ttlMin' * 60000 - 10000
            /\ \/ <<requestParams', requestTime'>> = <<requestParams, requestTime>>
               \/ requestParams' = "ExpiredSessionKeyError")]_vars

C11_Witness ==
    /\ now > creationTimeMs + ttlMin * 60000 - 10000
    /\ requestTime = now
    /\ requestParams = "ExpiredSessionKeyError"
    /\ personalMessageSignature \in UserSignatures
    /\ certificate.status = "ok"
    /\ certificate.value[1].signature = personalMessageSignature

(* C19 as stated: the certificates returned to getCertificate calls made after
   setPersonalMessageSignature first succeeded are all the same. *)
C19_AllCertificatesTheSame ==
    issued # NotAuthorizedByUser => Cardinality(issued) <= 1

(* C19 amended: a getCertificate call made after setPersonalMessageSignature
   has succeeded returns the certificate of the session's user, verify key,
   creation time, TTL and currently stored signature, and changes nothing of
   the session's state. *)
C19_CertificateOfStoredSignature ==
    [][(/\ issued # NotAuthorizedByUser
        /\ signing' = signing
        /\ certificate' # certificate \/ issued' # issued)
        => (/\ certificate' =
                  [status |-> "ok",
                   value |-> <<[user |-> "address", session_vk |-> "sessionKey",
                                creation_time |-> creationTimeMs, ttl_min |-> ttlMin,
                                signature |-> personalMessageSignature]>>]
            /\ issued' = issued \cup {personalMessageSignature}
            /\ sessionVars' = sessionVars)]_vars

C19_Witness ==
    /\ issued # NotAuthorizedByUser
    /\ Cardinality(issued) >= 2
    /\ now > creationTimeMs
    /\ certificate.status = "ok"
    /\ certificate.value[1].signature = personalMessageSignature

(* C20: once a signature is stored, no operation changes it. *)
C20_SignatureIsReadOnly ==
    [][personalMessageSignature # NoSignature
        => personalMessageSignature' = personalMessageSignature]_vars

(* C21: a setPersonalMessageSignature call changes the stored signature only
   to the signature it was given and only if that signature verifies; a call
   whose signature does not verify fails with InvalidPersonalMessageSignature
   and leaves the state of the session as it was. *)
C21_OnlyVerifiedSignatureIsStored ==
    [][signatureCheck'.status # "none"
        => (/\ personalMessageSignature' # personalMessageSignature
                  => (/\ signatureCheck'.verifies
                      /\ personalMessageSignature' = signatureCheck'.signature)
            /\ ~signatureCheck'.verifies
                  => (/\ signatureCheck'.status = "InvalidPersonalMessageSignatureError"
                      /\ sessionVars' = sessionVars))]_vars

C21_Witness ==
    /\ signatureCheck.status = "InvalidPersonalMessageSignatureError"
    /\ ~signatureCheck.verifies
    /\ personalMessageSignature \in UserSignatures
    /\ personalMessageSignature # signatureCheck.signature

(* C22: a getCertificate call on a session with no stored signature hands the
   personal message to the Signer, and returns nothing before the Signer
   answers, if a Signer was supplied at construction; without a Signer it
   fails with InvalidPersonalMessageSignature, returns no certificate and the
   session still has no signature. *)
C22_SignerOrFailure ==
    [][(/\ personalMessageSignature = NoSignature
        /\ signatureCheck'.status = "none"
        /\ signing' > signing \/ (signing' = signing /\ certificate' # certificate))
        => IF hasSigner
           THEN /\ signing' = signing + 1
                /\ signerMessage' =
                      <<[packageId |-> "packageId", ttl_min |-> ttlMin,
                         creation_time_utc |-> creationTimeMs \div 1000,
                         session_vk |-> "sessionKey"]>>
                /\ certificate' = certificate
                /\ personalMessageSignature' = NoSignature
           ELSE /\ signing' = signing
                /\ certificate' =
                      [status |-> "InvalidPersonalMessageSignatureError", value |-> <<>>]
                /\ personalMessageSignature' = NoSignature]_vars

C22_Witness ==
    /\ personalMessageSignature = NoSignature
    /\ hasSigner
    /\ signing > 0
    /\ signerMessage = <<PersonalMessage(creationTimeMs, ttlMin)>>
    /\ certificate.status = "none"

(***************************************************************************)
(* Properties of the handling of one response and of the requests of one   *)
(* call (checked under Spec).                                              *)
(***************************************************************************)
(* C15: the step that handles a 2xx response holding a key that fails
   verifyUserSecretKey adds nothing to the error buffer and does not end the
   call; every key of the response that passes verification is in the cache
   and counted as received after the step, and a key that fails it leaves its
   cache entry as it was. *)
C15_InvalidKeyIsSkipped ==
    [][\A s \in Servers :
          (task[s] = "resolved" /\ task'[s] # "resolved" /\ response' # <<>>)
          => (/\ response'[1] = s
              /\ warned'
              /\ errors' = errors
              /\ pc' = "fetching"
              /\ result' = result
              /\ \A f \in FullIds :
                    LET key == response'[2][f]
                        entry == <<f, ObjectId(s)>>
                    IN IF key # NoKey /\ VerifyUserSecretKey(key, f, Pk(s))
                       THEN cachedKeys'[entry] = key /\ f \in receivedIds'[s]
                       ELSE cachedKeys'[entry] = cachedKeys[entry]
                            /\ f \notin receivedIds'[s])]_vars

(* a response with one key that fails verification and one that passes has
   just been handled: the valid key is cached, nothing is recorded as an error,
   and the call reaches its threshold through the other servers *)
C15_Witness ==
    /\ pc = "fetching"
    /\ completedServerCount >= threshold
    /\ errors = <<>>
    /\ warned
    /\ Len(response) = 2
    /\ \E f, g \in fullIds :
          /\ response[2][f] # NoKey
          /\ ~VerifyUserSecretKey(response[2][f], f, Pk(response[1]))
          /\ VerifyUserSecretKey(response[2][g], g, Pk(response[1]))
          /\ cachedKeys[<<f, ObjectId(response[1])>>] = NoKey
          /\ cachedKeys[<<g, ObjectId(response[1])>>] = response[2][g]

(* C16: the call that dispatches requests sends one to each server that lacks
   a cached key for some requested fullId and to no other server; until the
   call has settled no further request is sent and no request that has
   resolved, rejected or been aborted is pending again. *)
C16_OneRequestPerRemainingServer ==
    [][/\ (pc = "idle" /\ pc' = "fetching")
          => (/\ remainingKeyServers' =
                    {s \in Servers : \E f \in fullIds' : cachedKeys[<<f, ObjectId(s)>>] = NoKey}
              /\ requestsSent' = Cardinality(remainingKeyServers')
              /\ \A s \in Servers : task'[s] = IF s \in remainingKeyServers' THEN "pending"
                                                ELSE "none")
       /\ pc = "fetching"
          => (/\ requestsSent' = requestsSent
              /\ remainingKeyServers' = remainingKeyServers
              /\ \A s \in Servers :
                    /\ task'[s] = "pending" => task[s] = "pending"
                    /\ task'[s] = "none" <=> task[s] = "none")]_vars

(* a call that found one server complete in the cache sent its only request
   to the other server, and that request failed *)
C16_Witness ==
    /\ stage = "settled"
    /\ remainingKeyServers # {}
    /\ remainingKeyServers # Servers
    /\ requestsSent = Cardinality(remainingKeyServers)
    /\ \E s \in remainingKeyServers : task[s] = "handledRejected"
    /\ \A s \in Servers \ remainingKeyServers : task[s] = "none"

(***************************************************************************)
(* Properties of #validateEncryptionServices (checked under                *)
(* SpecValidation).                                                        *)
(***************************************************************************)
(* C12: a decrypt call gets past the reconciliation of key servers, that is it
   does not fail with InconsistentKeyServers, exactly if every object id
   configured on the client occurs among the services of the envelope as many
   times as it is configured; when it fails so, no key server list is
   retrieved, no promise is created and the cache is untouched. *)
C12_ReconciliationIffCountsAgree ==
    [][\A c \in DOMAIN callers :
          (callers[c].kind = "none" /\ callers'[c].kind = "decrypt")
          => LET count(list, x) == Cardinality({i \in DOMAIN list : list[i] = x})
                 agree == \A i \in DOMAIN serverObjectIds :
                             count(services', serverObjectIds[i])
                                = count(serverObjectIds, serverObjectIds[i])
             IN /\ callers'[c].status # "InconsistentKeyServersError" <=> agree
                /\ ~agree => /\ retrievals' = retrievals
                             /\ keyServersPromise' = keyServersPromise
                             /\ cachedKeys' = cachedKeys]_vars

(* a client configured with the same server twice, an envelope that names
   that server once: the call failed with InconsistentKeyServers *)
C12_Witness ==
    /\ callers[1].kind = "decrypt"
    /\ callers[1].status = "InconsistentKeyServersError"
    /\ retrievals = 0
    /\ \E i \in DOMAIN serverObjectIds :
          /\ Cardinality({j \in DOMAIN serverObjectIds : serverObjectIds[j] = serverObjectIds[i]}) = 2
          /\ Cardinality({j \in DOMAIN services : services[j] = serverObjectIds[i]}) = 1

(* C13 as stated: a decrypt call fails with InconsistentKeyServers whenever
   some server named in the envelope is not configured on the client as many
   times as the envelope names it. *)
C13_EnvelopeWithinClient ==
    callers[1].kind = "decrypt"
    => ((\E j \in DOMAIN services :
            Cardinality({i \in DOMAIN serverObjectIds : serverObjectIds[i] = services[j]})
               # Cardinality({i \in DOMAIN services : services[i] = services[j]}))
        => callers[1].status = "InconsistentKeyServersError")

(* C13 amended: a decrypt call fails with InconsistentKeyServers whenever some
   server configured on the client is not named in the envelope as many times
   as it is configured. *)
C13_ClientWithinEnvelope ==
    callers[1].kind = "decrypt"
    => ((\E i \in DOMAIN serverObjectIds :
            Cardinality({j \in DOMAIN services : services[j] = serverObjectIds[i]})
               # Cardinality({j \in DOMAIN serverObjectIds :
                                 serverObjectIds[j] = serverObjectIds[i]}))
        => callers[1].status = "InconsistentKeyServersError")

(* the envelope names a server but not one of the servers of the client *)
C13_Witness ==
    /\ callers[1].kind = "decrypt"
    /\ callers[1].status = "InconsistentKeyServersError"
    /\ Len(services) > 0
    /\ \E i \in DOMAIN serverObjectIds :
          \A j \in DOMAIN services : services[j] # serverObjectIds[i]

(***************************************************************************)
(* Properties of the key server list of a client and of the calls awaiting *)
(* it (checked under SpecClient).                                          *)
(***************************************************************************)
(* C14 as stated: a fetchKeys or decrypt call whose threshold is outside
   1..number of servers of the client fails with InvalidThreshold. *)
C14_BadThresholdIsInvalidThreshold ==
    \A c \in DOMAIN callers :
       (/\ callers[c].kind \in {"fetchKeys", "decrypt"}
        /\ callers[c].status \notin {"none", "awaiting"}
        /\ callers[c].threshold < 1 \/ callers[c].threshold > Len(serverObjectIds))
       => callers[c].status = "InvalidThresholdError"

(* C14 amended: a fetchKeys or decrypt call whose threshold is outside
   1..number of servers of the client never goes on to the certificate and the
   requests.  It ends with InvalidThreshold, unless the key server list does
   not resolve, and then with the error of the resolution at the step that
   rejects the promise, or, for decrypt, unless the services of the envelope
   are inconsistent, and then with InconsistentKeyServers at the call. *)
C14_BadThresholdNeverContinues ==
    [][\A c \in DOMAIN callers :
          (/\ callers[c].status \in {"none", "awaiting"}
           /\ callers'[c].status \notin {"none", "awaiting"}
           /\ callers'[c].kind \in {"fetchKeys", "decrypt"}
           /\ callers'[c].threshold < 1 \/ callers'[c].threshold > Len(serverObjectIds))
          => \/ callers'[c].status = "InvalidThresholdError"
             \/ /\ callers'[c].status = "InconsistentKeyServersError"
                /\ callers'[c].kind = "decrypt"
                /\ callers[c].status = "none"
             \/ /\ callers'[c].status
                      \in {"InvalidKeyServerError", "InvalidGetObjectError", "TimeoutError"}
                /\ callers[c].status = "awaiting"
                /\ keyServersPromise = "pending"
                /\ keyServersPromise' = "null"]_vars

(* the list has resolved; a decrypt call with threshold 0 and a fetchKeys call
   with a threshold above the number of servers both ended with
   InvalidThreshold *)
C14_Witness ==
    /\ keyServersPromise = "fulfilled"
    /\ \E c, d \in DOMAIN callers :
          /\ callers[c].kind = "decrypt"
          /\ callers[c].threshold = 0
          /\ callers[c].status = "InvalidThresholdError"
          /\ callers[d].kind = "fetchKeys"
          /\ callers[d].threshold > Len(serverObjectIds)
          /\ callers[d].status = "InvalidThresholdError"

(* C17: at most one #loadKeyServers runs at a time; retrieveKeyServers is
   called only while #keyServers is null; a call made while the promise is
   pending awaits it, and all the calls awaiting it resume in the step that
   settles it; once the promise is fulfilled it stays, nothing is retrieved
   again and a call made then does not wait. *)
C17_OneRetrievalAtATime ==
    [][/\ inFlight' <= 1
       /\ retrievals' # retrievals
             => (keyServersPromise = "null" /\ retrievals' = retrievals + 1)
       /\ (keyServersPromise = "pending" /\ keyServersPromise' # "pending")
             => \A c \in DOMAIN callers : callers'[c].status # "awaiting"
       /\ keyServersPromise = "fulfilled"
             => (/\ keyServersPromise' = "fulfilled"
                 /\ \A c \in DOMAIN callers : callers'[c].status # "awaiting")
       /\ \A c \in DOMAIN callers :
             (keyServersPromise = "pending" /\ callers'[c].status = "awaiting")
             => keyServersPromise' = "pending"]_vars

(* two calls await the one retrieval in flight *)
C17_Witness ==
    /\ retrievals = 1
    /\ inFlight = 1
    /\ keyServersPromise = "pending"
    /\ Cardinality({c \in DOMAIN callers : callers[c].status = "awaiting"}) >= 2

(* C18 as stated: when the client has no key server, or verifies its key
   servers and one of them has a wrong proof of possession, a call that fails
   on the resolution of the list fails with InvalidKeyServer. *)
C18_FailsWithInvalidKeyServer ==
    (\/ Len(serverObjectIds) = 0
     \/ verifyKeyServers /\ \E i \in DOMAIN serverObjectIds : serverObjectIds[i] \in invalidPops)
    => \A c \in DOMAIN callers :
          callers[c].status \notin {"InvalidGetObjectError", "TimeoutError"}

(* C18 amended: when the client has no key server, or verifies its key servers
   and one of them has a wrong proof of possession, the list never resolves
   and no call goes on beyond getKeyServers; with no key server the error is
   InvalidKeyServer. *)
C18_ResolutionFails ==
    (\/ Len(serverObjectIds) = 0
     \/ verifyKeyServers /\ \E i \in DOMAIN serverObjectIds : serverObjectIds[i] \in invalidPops)
    => /\ keyServersPromise # "fulfilled"
       /\ \A c \in DOMAIN callers :
             /\ callers[c].status # "continues"
             /\ Len(serverObjectIds) = 0
                   => callers[c].status \notin {"InvalidGetObjectError", "TimeoutError"}

(* one server of two has a wrong proof of possession: a fetchKeys call failed
   with InvalidKeyServer and the field is null again *)
C18_Witness ==
    /\ verifyKeyServers
    /\ Len(serverObjectIds) >= 2
    /\ \E i, j \in DOMAIN serverObjectIds :
          serverObjectIds[i] \in invalidPops /\ serverObjectIds[j] \notin invalidPops
    /\ keyServersPromise = "null"
    /\ retrievals >= 1
    /\ \E c \in DOMAIN callers :
          callers[c].kind = "fetchKeys" /\ callers[c].status = "InvalidKeyServerError"

(* C30: whenever the servers whose requests are still outstanding (requested
   and not yet handled by the try or the catch block) are too few to raise
   the completed count of the running fetchKeys call to threshold, the shared
   cancellation has been signalled. *)
C30_TooFewOutstandingIsCancelled ==
    (/\ pc = "fetching"
     /\ \E s \in remainingKeyServers : task[s] = "pending"
     /\ Cardinality({s \in remainingKeyServers : task[s] \notin Handled})
            < threshold - completedServerCount)
        => aborted

(* C31: a 2xx response whose verified keys cover only a strict subset of the
   requested fullIds adds those keys to the cache and leaves the completed
   count of the call as it was. *)
C31_PartialResponseCachedNotCounted ==
    [][\A s \in Servers :
          (/\ pc = "fetching"
           /\ task[s] = "resolved"
           /\ task'[s] = "handledResolved"
           /\ receivedIds'[s] \subseteq fullIds
           /\ receivedIds'[s] # fullIds)
          => /\ completedServerCount' = completedServerCount
             /\ \A f \in receivedIds'[s] :
                   /\ cachedKeys'[<<f, ObjectId(s)>>] # NoKey
                   /\ VerifyUserSecretKey(cachedKeys'[<<f, ObjectId(s)>>], f, Pk(s))]_vars

C31_Witness ==
    /\ pc = "fetching"
    /\ \E s \in Servers :
          /\ task[s] = "handledResolved"
          /\ receivedIds[s] # {}
          /\ receivedIds[s] \subseteq fullIds
          /\ receivedIds[s] # fullIds
          /\ \A f \in receivedIds[s] : cachedKeys[<<f, ObjectId(s)>>] # NoKey
          /\ completedServerCount = 0

(* C32: the key cache is what it would be had the processed entries been
   taken server by server and first to last within each response, whatever
   the order in which they were in fact processed. *)
C32_CacheIndependentOfOrder ==
    cachedKeys = InOrder([k \in FullIds \X ObjectIds |-> NoKey], 1, 1)

C32_Witness ==
    \E s \in Servers :
        /\ Len(arrived[s]) = 2
        /\ arrived[s][1].fullId = arrived[s][2].fullId
        /\ arrived[s][1].key # arrived[s][2].key
        /\ <<s, 2>> \in processed
        /\ <<s, 1>> \notin processed
        /\ \E r \in Servers : r # s /\ <<r, 1>> \in processed
        /\ cachedKeys[<<arrived[s][2].fullId, ObjectId(s)>>] # NoKey

(* C33 as stated: for threshold 1, split returns n shares, each equal to the
   secret, tagged with the distinct indices 1..n. *)
C33_CopiesTaggedOneToN ==
    (shared.threshold = 1 /\ shared.shares # <<>>)
        => /\ Len(shared.shares) = shared.n
           /\ \A i \in 1..shared.n : shared.shares[i].share = shared.secret
           /\ \A i, j \in 1..shared.n :
                 i # j => shared.shares[i].index # shared.shares[j].index
           /\ {shared.shares[i].index : i \in 1..shared.n} = 1..shared.n

(* C33, amended: for threshold 1, split returns n shares, each equal to the
   secret, tagged with the distinct indices 0..n-1. *)
C33_CopiesTaggedZeroToNMinusOne ==
    (shared.threshold = 1 /\ shared.shares # <<>>)
        => /\ Len(shared.shares) = shared.n
           /\ \A i \in 1..shared.n : shared.shares[i].share = shared.secret
           /\ \A i, j \in 1..shared.n :
                 i # j => shared.shares[i].index # shared.shares[j].index
           /\ {shared.shares[i].index : i \in 1..shared.n} = 0..(shared.n - 1)

C33_Witness ==
    /\ shared.threshold = 1
    /\ shared.n = NumServers
    /\ Len(shared.shares) = NumServers
    /\ shared.secret # <<>>
    /\ encrypted.status = "ok"

(* C34: whenever the failure of a task signals the cancellation, the queried
   servers that have not failed are fewer than threshold minus the completed
   count, so the threshold is out of reach. *)
C34_ErrorAbortOnlyWhenUnreachable ==
    [][(/\ pc = "fetching"
        /\ ~aborted
        /\ aborted'
        /\ \E s \in Servers : task[s] = "rejected" /\ task'[s] = "handledRejected")
       => Cardinality({s \in remainingKeyServers :
                          task'[s] \notin {"rejected", "handledRejected"}})
              < threshold - completedServerCount']_vars

C34_Witness ==
    /\ pc = "fetching"
    /\ aborted
    /\ errors # <<>>
    /\ completedServerCount < threshold
    /\ \E s \in Servers : task[s] = "aborted"
    /\ \E s \in Servers : task[s] = "handledRejected"

(* C35 as stated: a fetchKeys call made with a session key that is expired, or
   that has neither a signature nor a Signer, sends no fetch_key request and
   fails, with ExpiredSessionKey or InvalidPersonalMessageSignature
   respectively. *)
C35_NoRequestAndTypedFailure ==
    [][(/\ callNo' = callNo + 1
        /\ \/ now > creationTimeMs + ttlMin * 60000 - 10000
           \/ personalMessageSignature = NoSignature /\ ~hasSigner)
       => /\ requestsSent' = 0
          /\ pc' = "idle"
          /\ result'.name \in
                {e \in {"ExpiredSessionKeyError", "InvalidPersonalMessageSignatureError"} :
                    \/ /\ e = "ExpiredSessionKeyError"
                       /\ now > creationTimeMs + ttlMin * 60000 - 10000
                    \/ /\ e = "InvalidPersonalMessageSignatureError"
                       /\ personalMessageSignature = NoSignature /\ ~hasSigner}]_vars

(* C35, amended: such a call sends no fetch_key request; unless it ends
   earlier (the key server resolution fails, the threshold is invalid, the
   cache holds enough keys and the call succeeds, or a key server has an
   invalid key type) it fails, with InvalidPersonalMessageSignature when
   signature and Signer are missing and with ExpiredSessionKey otherwise. *)
C35_NoRequestForUnusableSession ==
    [][(/\ callNo' = callNo + 1
        /\ \/ now > creationTimeMs + ttlMin * 60000 - 10000
           \/ personalMessageSignature = NoSignature /\ ~hasSigner)
       => /\ requestsSent' = 0
          /\ pc' = "idle"
          /\ stage' \in {"keyServers", "threshold", "cache", "keyType", "certificate",
                         "requestParams"}
          /\ stage' = "cache" <=> result' = Ok
          /\ stage' \in {"certificate", "requestParams"} =>
                result'.name = IF personalMessageSignature = NoSignature /\ ~hasSigner
                               THEN "InvalidPersonalMessageSignatureError"
                               ELSE "ExpiredSessionKeyError"]_vars

C35_Witness ==
    /\ now > creationTimeMs + ttlMin * 60000 - 10000
    /\ callNo >= 2
    /\ stage = "requestParams"
    /\ result.name = "ExpiredSessionKeyError"
    /\ requestsSent = 0
    /\ pc = "idle"
    /\ \E k \in DOMAIN cachedKeys : cachedKeys[k] # NoKey

(* C36 as stated: inside SealClient.decrypt, whenever the fetchKeys step
   succeeds, the cache holds usable keys under the envelope's own fullId for
   at least envelope.threshold of the envelope's services, and the share
   recovery does not fail for lack of shares. *)
C36_FetchedKeysSufficeForEnvelope ==
    decryption.stage = "decrypt" =>
        /\ Cardinality(ServicesWithKey) >= encrypted.encryptedObject.threshold
        /\ decrypted.message # NotEnoughSharesMessage

(* C36, amended: the same, for a session key created for the package of the
   envelope. *)
C36_FetchedKeysSufficeForSamePackage ==
    (/\ decryption.stage = "decrypt"
     /\ encrypted.encryptedObject.packageId = SessionPackageId) =>
        /\ Cardinality(ServicesWithKey) >= encrypted.encryptedObject.threshold
        /\ decrypted.message # NotEnoughSharesMessage

C36_Witness ==
    /\ decryption.stage = "decrypt"
    /\ encrypted.encryptedObject.packageId = SessionPackageId
    /\ stage = "settled"
    /\ decrypted.status = "ok"
    /\ \E s \in Servers : task[s] = "handledResolved"

(* C37: no step removes a key from the cache or replaces it with another key,
   and every fetchKeys call that reaches its cache test counts each server whose
   keys for all requested fullIds are in the cache, whichever call put them
   there. *)
C37_CacheOnlyGrows ==
    [][/\ \A k \in DOMAIN cachedKeys :
             cachedKeys[k] # NoKey => cachedKeys'[k] = cachedKeys[k]
       /\ (callNo' = callNo + 1 /\ stage' \notin {"keyServers", "threshold"})
             => completedServerCount' =
                   Cardinality({s \in Servers :
                                   \A f \in fullIds' : cachedKeys[<<f, ObjectId(s)>>] # NoKey})]_vars

C37_Witness ==
    /\ pc = "idle"
    /\ callNo = 1
    /\ stage = "settled"
    /\ result.name \notin {"ok", "none"}
    /\ completedServerCount < threshold
    /\ \E s \in Servers : \A f \in fullIds : cachedKeys[<<f, ObjectId(s)>>] # NoKey

(* C38: a resolution of the key server list that rejects leaves #keyServers
   null; a call that needs the list and finds the field null starts a fresh
   retrieval and awaits it instead of failing with the earlier error; a
   rejection ends the only resolution there is, so none in flight is
   discarded, and a list that has resolved stays. *)
C38_FailedResolutionIsNotCached ==
    [][/\ (keyServersPromise = "pending" /\ keyServersPromise' # "pending")
             => /\ keyServersPromise' \in {"fulfilled", "null"}
                /\ inFlight = 1 /\ inFlight' = 0
                /\ keyServersPromise' = "fulfilled"
                      <=> \A c \in DOMAIN callers :
                             callers[c].status = "awaiting"
                                => callers'[c].status \in {"continues", "InvalidThresholdError"}
       /\ \A c \in DOMAIN callers :
             (/\ keyServersPromise = "null"
              /\ callers[c].kind = "none"
              /\ callers'[c].kind # "none"
              /\ callers'[c].status \notin {"InconsistentKeyServersError", "InvalidThresholdError"})
             => /\ callers'[c].status = "awaiting"
                /\ keyServersPromise' = "pending"
                /\ retrievals' = retrievals + 1
                /\ inFlight' = 1
       /\ keyServersPromise = "fulfilled" => keyServersPromise' = "fulfilled"]_vars

(* the first resolution was rejected, the second has succeeded *)
C38_Witness ==
    /\ retrievals = 2
    /\ keyServersPromise = "fulfilled"
    /\ \E c, d \in DOMAIN callers :
          /\ c < d
          /\ callers[c].status \in {"InvalidGetObjectError", "TimeoutError", "InvalidKeyServerError"}
          /\ callers[d].status = "continues"

(* C39 as stated: the Signer of a session is invoked at most once: no call
   invokes it while an earlier invocation is awaiting its answer or after the
   Signer has answered. *)
C39_SignerInvokedAtMostOnce ==
    [][signing' > signing => (signing = 0 /\ personalMessageSignature # "signer")]_vars

(* C39, amended: the Signer is invoked only by a call that finds no signature
   stored, and a stored signature is never removed: calls that do not overlap
   invoke it at most once in all, while each call made before the first answer
   invokes it again. *)
C39_SignerInvokedOnlyWhileUnsigned ==
    [][/\ signing' > signing
             => (hasSigner /\ personalMessageSignature = NoSignature /\ signing' = signing + 1)
       /\ personalMessageSignature # NoSignature => personalMessageSignature' # NoSignature]_vars

(* two calls are awaiting the Signer at once *)
C39_Witness ==
    /\ hasSigner
    /\ personalMessageSignature = NoSignature
    /\ signing >= 2

(* C40: every fetchKeys call that has dispatched its requests returns or
   throws: each request still outstanding ends by the client's timeout at the
   latest, whether or not its server answers, and once all have ended the
   call settles. *)
C40_FetchKeysTerminates ==
    (pc = "fetching") ~> (pc = "idle" /\ stage = "settled" /\ result # NoResult)

(* a call has settled although a server never answered: its request ended by
   itself and no key of that server was received *)
C40_Witness ==
    /\ pc = "idle"
    /\ stage = "settled"
    /\ \E s \in remainingKeyServers : task[s] = "handledRejected"

====
